---- MODULE Spec2Model ----
(***************************************************************************)
(* A model of karma.link's ABI codec (package abi): Encode / Decode over   *)
(* the type model of package types.                                        *)
(*                                                                         *)
(* Bytes are numbers 0..255, byte slices are sequences (1-based here,      *)
(* 0-based in the source).  A big.Int is [neg, mag] with mag the minimal   *)
(* big-endian magnitude (big.Int.Bytes()).  JSON values are modelled at    *)
(* the level of the JSON data model, with number literals kept as their    *)
(* text (ASCII codes) and strings as their UTF-8 bytes:                    *)
(*   [j |-> "num", text |-> <<49, 50>>]        the literal 12              *)
(*   [j |-> "str", s |-> <<97, 98>>]           the string "ab"             *)
(*   [j |-> "arr", items |-> <<v1, v2>>]                                   *)
(*   [j |-> "obj", m |-> [key |-> value]]                                  *)
(*   [j |-> "null"]                                                        *)
(***************************************************************************)
EXTENDS Integers, Sequences, FiniteSets, TLC

VARIABLES
  pc,    \* position of the caller: "start", "encoded", "decoded"; "received", "foreign"
  typ,   \* the types.Type handed to Encode / Decode
  arg,   \* the JSON argument handed to Encode
  enc,   \* what Encode returned
  buf,   \* the Code handed to Decode
  dec,   \* what Decode returned
  combined, \* the ast.Combined handed to extract.Project
  project,  \* what extract.Project returned, the RpcHandler's project
  req,      \* the request an RPC method is serving
  res,      \* what the RPC method answered
  eth,      \* the calls the RPC method made on EthClient, in order
  unresolved, \* the types.Map the resolve pass of Project started from
  resolving,  \* the resolve pass: the map, the keys of its range, its call stack
  registered, \* auth.registered: name -> Authenticator
  store,      \* KeyStore.store: index -> masked key bytes
  timers,     \* the indices with a time.AfterFunc that has not fired yet
  expired,    \* the tokens whose Expires the clock has passed
  written,    \* what each Write stored and returned, and how its entry ended
  goroutines, \* per goroutine: the locals of the RenewToken it is in
  ret         \* the call into package auth that returned last

abiVars == <<typ, arg, enc, buf, dec>>
linkVars == <<combined, project, req, res, eth>>
resolveVars == <<unresolved, resolving>>
authVars == <<registered, store, timers, expired, written, goroutines, ret>>
vars == <<pc, typ, arg, enc, buf, dec, combined, project, req, res, eth, unresolved, resolving,
          registered, store, timers, expired, written, goroutines, ret>>

(***************************************************************************)
(* Byte slices and math/big                                                *)
(***************************************************************************)

\* make([]byte, n, n)
Zeros(n) == [i \in 1..n |-> 0]

Rep(n, x) == [i \in 1..n |-> x]

\* nat.norm: strip leading zero bytes of a big-endian magnitude
RECURSIVE Norm(_)
Norm(bs) == IF bs # <<>> /\ Head(bs) = 0 THEN Norm(Tail(bs)) ELSE bs

\* big.NewInt(n).Bytes() for a small n >= 0
RECURSIVE NatBytes(_)
NatBytes(n) == IF n = 0 THEN <<>> ELSE NatBytes(n \div 256) \o <<n % 256>>

\* bs * m + a on big-endian magnitudes (m, a small), not normalised
RECURSIVE MulAddRaw(_, _, _)
MulAddRaw(bs, m, a) ==
  IF bs = <<>>
  THEN IF a = 0 THEN <<>> ELSE MulAddRaw(<<>>, m, a \div 256) \o <<a % 256>>
  ELSE LET n == Len(bs)
           v == bs[n] * m + a
       IN MulAddRaw(SubSeq(bs, 1, n - 1), m, v \div 256) \o <<v % 256>>

MulAdd(bs, m, a) == Norm(MulAddRaw(bs, m, a))

\* long division of a big-endian magnitude by a small d: [q, r]
RECURSIVE DivModRaw(_, _, _, _)
DivModRaw(bs, d, r, q) ==
  IF bs = <<>>
  THEN [q |-> q, r |-> r]
  ELSE LET v == r * 256 + Head(bs)
       IN DivModRaw(Tail(bs), d, v % d, q \o <<v \div d>>)

DivMod(bs, d) == LET x == DivModRaw(bs, d, 0, <<>>) IN [q |-> Norm(x.q), r |-> x.r]

\* a small number from its decimal digits, and back
RECURSIVE SmallFromDec(_)
SmallFromDec(ds) ==
  IF ds = <<>> THEN 0 ELSE 10 * SmallFromDec(SubSeq(ds, 1, Len(ds) - 1)) + ds[Len(ds)]

RECURSIVE SmallToDec(_)
SmallToDec(n) == IF n = 0 THEN <<>> ELSE SmallToDec(n \div 10) \o <<n % 10>>

\* the magnitude denoted by decimal digits, six digits at a time
RECURSIVE FromDec(_)
FromDec(ds) ==
  IF Len(ds) <= 6 THEN NatBytes(SmallFromDec(ds))
  ELSE MulAdd(FromDec(SubSeq(ds, 1, Len(ds) - 6)), 1000000,
              SmallFromDec(SubSeq(ds, Len(ds) - 5, Len(ds))))

\* the decimal digits of a magnitude, most significant first (<<>> for 0)
RECURSIVE ToDec(_)
ToDec(bs) ==
  IF bs = <<>> THEN <<>>
  ELSE LET x == DivMod(bs, 1000000)
           low == SmallToDec(x.r)
       IN IF x.q = <<>> THEN low
          ELSE ToDec(x.q) \o Zeros(6 - Len(low)) \o low

\* the magnitude denoted by hexadecimal digits
FromHex(ds) ==
  LET p == IF Len(ds) % 2 = 1 THEN <<0>> \o ds ELSE ds
  IN Norm([i \in 1..(Len(p) \div 2) |-> 16 * p[2 * i - 1] + p[2 * i]])

\* the hexadecimal digits of a magnitude, most significant first (<<>> for 0)
ToHex(bs) ==
  LET ns == [j \in 1..(2 * Len(bs)) |->
               IF j % 2 = 1 THEN bs[(j + 1) \div 2] \div 16 ELSE bs[j \div 2] % 16]
  IN IF ns # <<>> /\ ns[1] = 0 THEN Tail(ns) ELSE ns

Digits(bs, base) == IF base = 16 THEN ToHex(bs) ELSE ToDec(bs)

\* ASCII
IsDecChar(c) == c >= 48 /\ c <= 57
IsHexChar(c) == IsDecChar(c) \/ (c >= 97 /\ c <= 102) \/ (c >= 65 /\ c <= 70)
HexVal(c) == IF IsDecChar(c) THEN c - 48 ELSE IF c >= 97 THEN c - 87 ELSE c - 55
DigitChar(d) == IF d < 10 THEN 48 + d ELSE 87 + d

BigInt(neg, mag) == [neg |-> neg /\ mag # <<>>, mag |-> mag]

\* (*big.Int).Text(base): "0" for zero, '-' before a negative number
Text(x, base) ==
  (IF x.neg THEN <<45>> ELSE <<>>)
    \o (IF x.mag = <<>> THEN <<48>>
        ELSE LET ds == Digits(x.mag, base) IN [i \in 1..Len(ds) |-> DigitChar(ds[i])])

\* (*big.Int).BitLen()
RECURSIVE BitLenByte(_)
BitLenByte(b) == IF b = 0 THEN 0 ELSE 1 + BitLenByte(b \div 2)

BitLen(x) == IF x.mag = <<>> THEN 0 ELSE 8 * (Len(x.mag) - 1) + BitLenByte(x.mag[1])

\* new(big.Int).SetBytes(bs)
SetBytes(bs) == BigInt(FALSE, Norm(bs))

(***************************************************************************)
(* package types: the tagged variants of types.Type.  An Elementary        *)
(* identifier is kept as its family name and its numeric suffix            *)
(* ("uint8" is name "uint", n 8; "bytes" has no suffix).  Enum case names  *)
(* are UTF-8 byte strings, Struct keys are opaque strings.                 *)
(***************************************************************************)

\* types.DynamicArrayLength
DynamicArrayLength == -1

El(name) == [k |-> "Elementary", name |-> name, sized |-> FALSE, n |-> 0]
ElN(name, n) == [k |-> "Elementary", name |-> name, sized |-> TRUE, n |-> n]
Tuple(ts) == [k |-> "Tuple", ts |-> ts]
Struct(keys, ts) == [k |-> "Struct", Keys |-> keys, Types |-> ts]
Array(length, t) == [k |-> "Array", Length |-> length, Type |-> t]
Enum(cases) == [k |-> "Enum", cases |-> cases]
Named(name, t) == [k |-> "Named", Name |-> name, Type |-> t]
ContractAddress(id) == [k |-> "ContractAddress", id |-> id]
InterfaceAddress(id) == [k |-> "InterfaceAddress", id |-> id]
LibraryAddress(id) == [k |-> "LibraryAddress", id |-> id]

\* Array.IsDynamic
IsDynamic(a) == a.Length = DynamicArrayLength

(***************************************************************************)
(* package abi, abi.go                                                     *)
(***************************************************************************)

addressType == El("address")

\* the types on which width returns (it panics on Mapping, Event, Reference)
RECURSIVE widthReturns(_)
widthReturns(t) ==
  CASE t.k = "Named" -> widthReturns(t.Type)
    [] t.k \in {"Enum", "ContractAddress", "InterfaceAddress", "LibraryAddress",
                "Elementary"} -> TRUE
    [] t.k = "Tuple" -> \A i \in 1..Len(t.ts) : widthReturns(t.ts[i])
    [] t.k = "Struct" -> \A i \in 1..Len(t.Types) : widthReturns(t.Types[i])
    [] t.k = "Array" -> IsDynamic(t) \/ widthReturns(t.Type)
    [] OTHER -> FALSE

RECURSIVE SumWidth(_, _)
RECURSIVE width(_)
width(t) ==
  CASE t.k = "Named" -> width(t.Type)
    [] t.k \in {"Enum", "ContractAddress", "InterfaceAddress", "LibraryAddress",
                "Elementary"} -> 32
    [] t.k = "Tuple" -> SumWidth(t.ts, 1)
    [] t.k = "Struct" -> SumWidth(t.Types, 1)
    [] t.k = "Array" -> IF t.Length = DynamicArrayLength THEN 32
                        ELSE width(t.Type) * t.Length

SumWidth(ts, i) == IF i > Len(ts) THEN 0 ELSE width(ts[i]) + SumWidth(ts, i + 1)

\* the first byte of a JSON text, by the kind of value it starts
peekNonWhitespaceByte(v) ==
  CASE v.j = "str" -> "quote"
    [] v.j = "num" -> "digit"
    [] v.j = "arr" -> "bracket"
    [] OTHER -> "other"

normalizeElementaryTypeName(t) ==
  IF t.sized THEN t
  ELSE CASE t.name = "byte" -> ElN("bytes", 1)
         [] t.name = "int" -> ElN("int", 256)
         [] t.name = "uint" -> ElN("uint", 256)
         [] t.name = "address" -> ElN("uint", 160)
         [] t.name = "fixed" -> ElN("fixed", 128)
         [] t.name = "ufixed" -> ElN("ufixed", 128)
         [] t.name = "string" -> El("bytes")
         [] OTHER -> t

\* the carry loop of manualTwosComplement: i is the 0-based index of the source
RECURSIVE addOne(_, _)
addOne(cs, i) ==
  IF i > 0
  THEN LET c == (cs[i + 1] + 1) % 256
           ds == SubSeq(cs, 1, i) \o <<c>> \o SubSeq(cs, i + 2, Len(cs))
       IN IF c # 0 THEN ds ELSE addOne(ds, i - 1)
  ELSE cs

\* bs[0] MSB ... bs[len(bs)-1] LSB; the callers pass 32 bytes
manualTwosComplement(bs) == addOne([i \in 1..Len(bs) |-> 255 - bs[i]], 31)

\* encodeInt256 of a big.Int of at most 32 bytes (make panics on more)
encodeInt256(x) ==
  LET cs == Zeros(32 - Len(x.mag)) \o x.mag
  IN IF ~x.neg THEN cs ELSE manualTwosComplement(cs)

\* encodeInt256(big.NewInt(int64(n))) for an int n >= 0
encodeInt(n) == encodeInt256(BigInt(FALSE, NatBytes(n)))

(***************************************************************************)
(* encoding/json, as far as the codec uses it                              *)
(***************************************************************************)

JNum(text) == [j |-> "num", text |-> text]
JStr(s) == [j |-> "str", s |-> s]
JArr(items) == [j |-> "arr", items |-> items]
JObj(m) == [j |-> "obj", m |-> m]
JNull == [j |-> "null"]

NoKeys == [key \in {} |-> JNull]

\* json.Unmarshal(arg, &temp), temp a []json.RawMessage: null leaves it empty
unmarshalArray(v) ==
  CASE v.j = "arr" -> [ok |-> TRUE, temp |-> v.items]
    [] v.j = "null" -> [ok |-> TRUE, temp |-> <<>>]
    [] OTHER -> [ok |-> FALSE]

\* json.Unmarshal(arg, &temp), temp a string: null leaves it ""
unmarshalString(v) ==
  CASE v.j = "str" -> [ok |-> TRUE, temp |-> v.s]
    [] v.j = "null" -> [ok |-> TRUE, temp |-> <<>>]
    [] OTHER -> [ok |-> FALSE]

\* json.Unmarshal(arg, &temp), temp a map[string]json.RawMessage
unmarshalObject(v) ==
  CASE v.j = "obj" -> [ok |-> TRUE, temp |-> v.m]
    [] v.j = "null" -> [ok |-> TRUE, temp |-> NoKeys]
    [] OTHER -> [ok |-> FALSE]

AllDec(text) == text # <<>> /\ \A i \in 1..Len(text) : IsDecChar(text[i])

RECURSIVE SmallDec(_)
SmallDec(text) ==
  IF text = <<>> THEN 0
  ELSE 10 * SmallDec(SubSeq(text, 1, Len(text) - 1)) + (text[Len(text)] - 48)

\* one element of a JSON array unmarshalled into a uint8 (strconv.ParseUint(s, 10, 8));
\* null leaves the zero value
IsUint8(v) ==
  \/ v.j = "null"
  \/ v.j = "num" /\ AllDec(v.text) /\ Len(v.text) <= 3 /\ SmallDec(v.text) <= 255

Uint8(v) == IF v.j = "null" THEN 0 ELSE SmallDec(v.text)

\* json.Unmarshal(arg, &temp), temp a []byte, arg a JSON array
unmarshalBytes(v) ==
  IF \A i \in 1..Len(v.items) : IsUint8(v.items[i])
  THEN [ok |-> TRUE, temp |-> [i \in 1..Len(v.items) |-> Uint8(v.items[i])]]
  ELSE [ok |-> FALSE]

\* strings.ContainsAny(text, "eE.")
ContainsExpOrPoint(text) == \E i \in 1..Len(text) : text[i] \in {101, 69, 46}

\* strings.HasPrefix(s, "0x")
Has0xPrefix(s) == Len(s) >= 2 /\ s[1] = 48 /\ s[2] = 120

\* val.SetString(str, 10) on the text of a JSON integer literal
SetStringDec(text) ==
  LET neg == text[1] = 45
      ds == IF neg THEN Tail(text) ELSE text
  IN IF AllDec(ds)
     THEN [ok |-> TRUE, val |-> BigInt(neg, FromDec([i \in 1..Len(ds) |-> ds[i] - 48]))]
     ELSE [ok |-> FALSE]

\* val.SetString(str, 0) on a string with the prefix "0x": hexadecimal digits
\* must follow (the separator '_' that base 0 also admits is left out)
SetStringHex(s) ==
  LET ds == SubSeq(s, 3, Len(s))
  IN IF ds # <<>> /\ \A i \in 1..Len(ds) : IsHexChar(ds[i])
     THEN [ok |-> TRUE, val |-> BigInt(FALSE, FromHex([i \in 1..Len(ds) |-> HexVal(ds[i])]))]
     ELSE [ok |-> FALSE]

(***************************************************************************)
(* package abi, encode.go                                                  *)
(*                                                                         *)
(* encode returns (head, tail, nil), (nil, nil, error) or panics:          *)
(*   [st |-> "ok", head, tail, g], [st |-> "err", path, msg],              *)
(*   [st |-> "panic"].                                                     *)
(* An error is its breadcrumb path ([i |-> index] or [k |-> key], outermost*)
(* first) and the innermost message.  g is history, not program state: it  *)
(* records, for every offset word written, the offset and where the length *)
(* word it points to was put.  g.refs are the offsets of the region being  *)
(* written (at: index into its tail), g.done those of the regions already  *)
(* closed (pos: index from the start of their region).                     *)
(***************************************************************************)

Ok(head, tail, g) == [st |-> "ok", head |-> head, tail |-> tail, g |-> g]
Err(path, msg) == [st |-> "err", path |-> path, msg |-> msg]
Panic == [st |-> "panic"]

\* the error of the Enum case: its message names temp and lists the cases
ErrEnum(temp, cases) ==
  [st |-> "err", path |-> <<>>, msg |-> "unexpected enum case", have |-> temp,
   expected |-> cases]

\* fmt.Errorf(`[%d] %s`, i, e), fmt.Errorf(`["%s"] %s`, key, e): the step before the message
Prefixed(step, e) == [e EXCEPT !.path = <<step>> \o @]

NoRefs == [refs |-> <<>>, done |-> <<>>]

Ref(g, off, at) == [g EXCEPT !.refs = Append(@, [off |-> off, at |-> at])]

Resolve(refs, headLen) ==
  [i \in 1..Len(refs) |-> [off |-> refs[i].off, pos |-> headLen + refs[i].at]]

\* no padding behind the payload
bytesPaddingNone(n) == <<>>

\* the padding appended to a dynamic bytes payload of length n
bytesPadding(n) == Zeros(32 - (n % 32))

\* the magnitude check of the integer case: len(val.Bytes()) > bits/8
tooLarge(val, bits) == Len(val.mag) > bits \div 8

\* the integer case of encode
encodeInteger(id, a, head, tail, g) ==
  IF id.n % 8 # 0 THEN Panic
  ELSE
  LET bits == id.n
      peek == peekNonWhitespaceByte(a)
  IN CASE peek = "quote" ->
            IF ~Has0xPrefix(a.s) THEN Err(<<>>, "expected 0x prefix")
            ELSE LET p == SetStringHex(a.s)
                 IN IF ~p.ok THEN Err(<<>>, "invalid hex number")
                    ELSE IF tooLarge(p.val, bits) THEN Err(<<>>, "value too large")
                    ELSE Ok(head \o encodeInt256(p.val), tail, g)
       [] peek = "digit" ->
            IF ContainsExpOrPoint(a.text)
            THEN Err(<<>>, "unexpected exponent or decimal separator")
            ELSE LET p == SetStringDec(a.text)
                 IN IF ~p.ok THEN Err(<<>>, "invalid hex number")
                    ELSE IF tooLarge(p.val, bits) THEN Err(<<>>, "value too large")
                    ELSE Ok(head \o encodeInt256(p.val), tail, g)
       [] OTHER -> Err(<<>>, "expected JSON string or number")

\* the bytes case of encode
encodeBytes(a, tailOffset, head, tail, g) ==
  LET peek == peekNonWhitespaceByte(a)
      u == IF peek = "bracket" THEN unmarshalBytes(a) ELSE [ok |-> TRUE, temp |-> a.s]
  IN CASE peek \notin {"bracket", "quote"} -> Err(<<>>, "expected string or array of numbers")
       [] peek \in {"bracket", "quote"} /\ ~u.ok -> Err(<<>>, "invalid byte array")
       [] OTHER ->
            LET bytes == u.temp
                length == encodeInt(Len(bytes))
                padded == bytes \o bytesPadding(Len(bytes))
                offset == tailOffset + Len(tail)
            IN Ok(head \o encodeInt(offset), tail \o length \o padded,
                  Ref(g, offset, Len(tail)))

\* the bytes1 .. bytes32 case of encode
encodeBytesN(id, a, head, tail, g) ==
  LET n == id.n
      peek == peekNonWhitespaceByte(a)
  IN IF n < 0 \/ n > 32 THEN Panic
     ELSE CASE peek = "bracket" ->
                 LET u == unmarshalBytes(a)
                 IN IF ~u.ok THEN Err(<<>>, "invalid array of bytes")
                    ELSE IF Len(u.temp) # n THEN Err(<<>>, "expected array of length n")
                    \* temp[:32]: temp has capacity 32, zero beyond its length
                    ELSE Ok(head \o u.temp \o Zeros(32 - n), tail, g)
            [] peek = "quote" ->
                 LET bytes == a.s
                 IN IF Len(bytes) > n THEN Err(<<>>, "string too long")
                    ELSE Ok(head \o bytes \o Zeros(32 - Len(bytes)), tail, g)
            [] OTHER -> Err(<<>>, "expected string or array of numbers")

\* the Elementary case of encode
encodeElementary(t, a, tailOffset, head, tail, g) ==
  LET id == normalizeElementaryTypeName(t)
  IN CASE id.name \in {"fixed", "ufixed"} -> Err(<<>>, "fixed/ufixed types not supported yet")
       [] id.name \in {"int", "uint"} /\ ~id.sized -> Panic
       [] id.name \in {"int", "uint"} /\ id.sized -> encodeInteger(id, a, head, tail, g)
       [] id.name = "bytes" /\ ~id.sized -> encodeBytes(a, tailOffset, head, tail, g)
       [] id.name = "bytes" /\ id.sized -> encodeBytesN(id, a, head, tail, g)
       [] OTHER -> Panic

RECURSIVE enumIndex(_, _, _)

\* the case lookup counting the cases from 1
enumIndexFromOne(cases, temp, i) ==
  IF i > Len(cases) THEN -1
  ELSE IF cases[i] = temp THEN i
  ELSE enumIndex(cases, temp, i + 1)

\* the index of the first case equal to temp, -1 when there is none
enumIndex(cases, temp, i) ==
  IF i > Len(cases) THEN -1
  ELSE IF cases[i] = temp THEN i - 1
  ELSE enumIndex(cases, temp, i + 1)

\* the tail offset the members of a Tuple are encoded with
tupleTailOffset(t, tailOffset) == tailOffset + width(t)

\* the tail offset the fields of a Struct are encoded with
structTailOffset(t, tailOffset) == tailOffset

\* the offset a dynamic Array writes into the head
arrayOffset(tailOffset, tail) == tailOffset + Len(tail)

RECURSIVE encode(_, _, _, _, _, _)
RECURSIVE encodeEach(_, _, _, _, _, _, _)
RECURSIVE encodeFields(_, _, _, _, _, _, _)

encode(t, a, tailOffset, head, tail, g) ==
  CASE t.k = "Named" -> encode(t.Type, a, tailOffset, head, tail, g)
    [] t.k \in {"ContractAddress", "InterfaceAddress", "LibraryAddress"} ->
         encode(addressType, a, tailOffset, head, tail, g)
    [] t.k = "Tuple" ->
         LET u == unmarshalArray(a)
         IN IF ~u.ok THEN Err(<<>>, "expected array of n elements")
            ELSE IF Len(u.temp) # Len(t.ts) THEN Err(<<>>, "expected array of n elements, have m")
            ELSE IF ~widthReturns(t) THEN Panic
            ELSE encodeEach(t.ts, u.temp, 1, tupleTailOffset(t, tailOffset), head, tail, g)
    [] t.k = "Enum" ->
         LET u == unmarshalString(a)
         IN IF ~u.ok THEN Err(<<>>, "expected string")
            ELSE LET idx == enumIndex(t.cases, u.temp, 1)
                 IN IF idx = -1 THEN ErrEnum(u.temp, t.cases)
                    ELSE Ok(head \o encodeInt(idx), tail, g)
    [] t.k = "Struct" ->
         LET u == unmarshalObject(a)
         IN IF ~u.ok THEN Err(<<>>, "expected object")
            ELSE IF Cardinality(DOMAIN u.temp) # Len(t.Keys)
            THEN Err(<<>>, "too many or too few keys in object")
            ELSE encodeFields(t, u.temp, 1, structTailOffset(t, tailOffset), head, tail, g)
    [] t.k = "Array" ->
         LET u == unmarshalArray(a)
         IN IF ~u.ok THEN Err(<<>>, "expected array")
            ELSE IF IsDynamic(t)
            THEN IF ~widthReturns(t.Type) THEN Panic
                 ELSE
                 LET n == Len(u.temp)
                     offset == arrayOffset(tailOffset, tail)
                     head1 == head \o encodeInt(offset)
                     tail1 == tail \o encodeInt(n)
                     itemWidth == width(t.Type)
                     subTailOffset == itemWidth * n
                     sub == encodeEach(Rep(n, t.Type), u.temp, 1, subTailOffset, <<>>, <<>>,
                                       [refs |-> <<>>, done |-> g.done])
                 IN CASE sub.st # "ok" -> sub
                      [] sub.st = "ok" /\ Len(sub.head) # itemWidth * n -> Panic
                      [] OTHER ->
                           Ok(head1, tail1 \o sub.head \o sub.tail,
                              [refs |-> Append(g.refs, [off |-> offset, at |-> Len(tail)]),
                               done |-> sub.g.done \o Resolve(sub.g.refs, Len(sub.head))])
            ELSE IF t.Length # Len(u.temp) THEN Err(<<>>, "expected array of length n, have m elements")
            ELSE encodeEach(Rep(t.Length, t.Type), u.temp, 1, tailOffset, head, tail, g)
    [] t.k = "Elementary" -> encodeElementary(t, a, tailOffset, head, tail, g)
    [] OTHER -> Panic

\* the loops returning the error of an element as it is, without its index
encodeEachNoIndex(ts, as, i, tailOffset, head, tail, g) ==
  IF i > Len(as) THEN Ok(head, tail, g)
  ELSE LET r == encode(ts[i], as[i], tailOffset, head, tail, g)
       IN IF r.st # "ok" THEN r
          ELSE encodeEach(ts, as, i + 1, tailOffset, r.head, r.tail, r.g)

\* the loops over the members of a Tuple and the elements of an Array
encodeEach(ts, as, i, tailOffset, head, tail, g) ==
  IF i > Len(as) THEN Ok(head, tail, g)
  ELSE LET r == encode(ts[i], as[i], tailOffset, head, tail, g)
       IN CASE r.st = "err" -> Prefixed([i |-> i - 1], r)
            [] r.st = "panic" -> r
            [] OTHER -> encodeEach(ts, as, i + 1, tailOffset, r.head, r.tail, r.g)

\* the loop over the keys of a Struct without the lookup temp[key]: a key
\* the object does not have is passed over
encodeFieldsSkipMissing(t, temp, i, tailOffset, head, tail, g) ==
  IF i > Len(t.Keys) THEN Ok(head, tail, g)
  ELSE LET key == t.Keys[i]
       IN IF key \notin DOMAIN temp
          THEN encodeFields(t, temp, i + 1, tailOffset, head, tail, g)
          ELSE LET r == encode(t.Types[i], temp[key], tailOffset, head, tail, g)
               IN CASE r.st = "err" -> Prefixed([k |-> key], r)
                    [] r.st = "panic" -> r
                    [] OTHER -> encodeFields(t, temp, i + 1, tailOffset, r.head, r.tail, r.g)

\* the loop over the keys of a Struct
encodeFields(t, temp, i, tailOffset, head, tail, g) ==
  IF i > Len(t.Keys) THEN Ok(head, tail, g)
  ELSE LET key == t.Keys[i]
       IN IF key \notin DOMAIN temp THEN Err(<<>>, "missing key in object")
          ELSE LET r == encode(t.Types[i], temp[key], tailOffset, head, tail, g)
               IN CASE r.st = "err" -> Prefixed([k |-> key], r)
                    [] r.st = "panic" -> r
                    [] OTHER -> encodeFields(t, temp, i + 1, tailOffset, r.head, r.tail, r.g)

\* Encode: the bytes head ++ tail, or an error and no bytes.  headLen and
\* offsets are history: the length of the head, and every offset written
\* with the position of the length word it stands for.
Encode(t, a) ==
  LET r == encode(t, a, 0, <<>>, <<>>, NoRefs)
  IN IF r.st = "ok"
     THEN [st |-> "ok", code |-> r.head \o r.tail, headLen |-> Len(r.head),
           offsets |-> r.g.done \o Resolve(r.g.refs, Len(r.head))]
     ELSE r

(***************************************************************************)
(* unicode/utf8 and encoding/base64, as far as decode uses them            *)
(***************************************************************************)

IsCont(b) == b >= 128 /\ b <= 191

\* utf8.Valid: runs of ASCII are skipped, every other character is checked
\* against the ranges of its first byte
RECURSIVE utf8Valid(_)
utf8Valid(bs) ==
  IF \A i \in 1..Len(bs) : bs[i] < 128 THEN TRUE
  ELSE LET n == Len(bs)
           at == CHOOSE i \in 1..n : bs[i] >= 128 /\ \A h \in 1..(i - 1) : bs[h] < 128
           b == bs[at]
           lo == CASE b = 224 -> 160
                   [] b = 240 -> 144
                   [] OTHER -> 128
           hi == CASE b = 237 -> 159
                   [] b = 244 -> 143
                   [] OTHER -> 191
           size == CASE b >= 194 /\ b <= 223 -> 2
                     [] b >= 224 /\ b <= 239 -> 3
                     [] b >= 240 /\ b <= 244 -> 4
                     [] OTHER -> 0
       IN /\ size # 0
          /\ n >= at + size - 1
          /\ bs[at + 1] >= lo /\ bs[at + 1] <= hi
          /\ size >= 3 => IsCont(bs[at + 2])
          /\ size >= 4 => IsCont(bs[at + 3])
          /\ utf8Valid(SubSeq(bs, at + size, n))

\* the character of base64.StdEncoding for a 6-bit value
base64Char(v) ==
  CASE v < 26 -> 65 + v
    [] v >= 26 /\ v < 52 -> 71 + v
    [] v >= 52 /\ v < 62 -> v - 4
    [] v = 62 -> 43
    [] OTHER -> 47

\* base64.StdEncoding.EncodeToString: what json.Marshal writes for a []byte.
\* Character j of the output belongs to the group of three bytes g.
base64(bs) ==
  LET n == Len(bs)
      B(i) == IF i <= n THEN bs[i] ELSE 0
  IN [j \in 1..(4 * ((n + 2) \div 3)) |->
        LET g == (j - 1) \div 4
            p == (j - 1) % 4
            b1 == B(3 * g + 1)
            b2 == B(3 * g + 2)
            b3 == B(3 * g + 3)
        IN CASE p = 0 -> base64Char(b1 \div 4)
             [] p = 1 -> base64Char((b1 % 4) * 16 + b2 \div 16)
             [] p = 2 -> IF 3 * g + 2 > n THEN 61 ELSE base64Char((b2 % 16) * 4 + b3 \div 64)
             [] OTHER -> IF 3 * g + 3 > n THEN 61 ELSE base64Char(b3 % 64)]

\* json.Marshal(string(bs)) when bs is valid UTF-8, json.Marshal(bs) otherwise
marshalBytes(bs) == IF utf8Valid(bs) THEN JStr(bs) ELSE JStr(base64(bs))

(***************************************************************************)
(* package abi, decode.go                                                  *)
(*                                                                         *)
(* A Code is a Go slice: its bytes b and, behind them, the bytes of the    *)
(* backing array up to its capacity (slack).  A slice expression panics    *)
(* when its bounds are outside 0 <= low <= high <= cap; s[low:] has        *)
(* high = len(s), s[:high] and s[low:high] may reach into the slack.       *)
(* decode returns (value, remainder, nil), (nil, nil, error) or panics:    *)
(*   [st |-> "ok", val, code], [st |-> "err", msg], [st |-> "panic"].      *)
(***************************************************************************)

Code(b, slack) == [b |-> b, slack |-> slack]

cap(c) == Len(c.b) + Len(c.slack)

\* whether c[low:high] is within bounds
sliceOk(c, low, high) == 0 <= low /\ low <= high /\ high <= cap(c)

\* the bytes of c[low:high]
slice(c, low, high) == SubSeq(c.b \o c.slack, low + 1, high)

\* whether c[low:] is within bounds
fromOk(c, low) == 0 <= low /\ low <= Len(c.b)

\* c[low:]
from(c, low) == Code(SubSeq(c.b, low + 1, Len(c.b)), c.slack)

\* int(new(big.Int).SetBytes(w).Int64()) of a 32-byte word: the low 64 bits.
\* fits says that the result is in 0 .. 2^31 - 1, and n is the result then;
\* every other result (negative, or 2^31 and more) is beyond any length here.
Int64(w) ==
  LET fits == SubSeq(w, 25, 28) = Zeros(4) /\ w[29] < 128
  IN [fits |-> fits,
      n |-> IF fits THEN ((w[29] * 256 + w[30]) * 256 + w[31]) * 256 + w[32] ELSE 0]

DOk(val, code) == [st |-> "ok", val |-> val, code |-> code]
DErr(msg) == [st |-> "err", msg |-> msg]

\* the text decode writes for the word of a uintM
uintText(w) ==
  LET val == SetBytes(w)
  IN IF BitLen(val) <= 32 THEN JNum(Text(val, 10))
     ELSE JStr(<<48, 120>> \o Text(val, 16))

\* the text decode writes for the word of an intM
intText(w) ==
  LET uval == SetBytes(w)
  IN IF w[1] < 128
     THEN IF BitLen(uval) <= 32 THEN JNum(Text(uval, 10))
          ELSE JStr(<<48, 120>> \o Text(uval, 16))
     ELSE LET sval == BigInt(TRUE, SetBytes(manualTwosComplement(w)).mag)
          IN IF BitLen(sval) > 32 THEN JStr(<<48, 120>> \o Text(uval, 16))
             ELSE JNum(Text(sval, 10))

\* the uint and int cases of decode
decodeInteger(id, code) ==
  IF ~sliceOk(code, 0, 32) \/ ~fromOk(code, 32) THEN Panic
  ELSE DOk(IF id.name = "uint" THEN uintText(slice(code, 0, 32))
           ELSE intText(slice(code, 0, 32)),
           from(code, 32))

\* the bytes case of decode
decodeBytes(code, offset) ==
  IF ~sliceOk(code, 0, 32) THEN Panic
  ELSE LET ref == Int64(slice(code, 0, 32))
       IN IF ~ref.fits \/ ~fromOk(code, ref.n - offset) THEN Panic
          ELSE LET tail == from(code, ref.n - offset)
               IN IF ~sliceOk(tail, 0, 32) THEN Panic
                  ELSE LET lng == Int64(slice(tail, 0, 32))
                       IN IF ~lng.fits \/ ~sliceOk(tail, 32, 32 + lng.n) THEN Panic
                          ELSE IF ~fromOk(code, 32) THEN Panic
                          ELSE DOk(marshalBytes(slice(tail, 32, 32 + lng.n)), from(code, 32))

\* the bytes1 .. bytes32 case of decode without bs = bs[:n]: the whole slot
decodeBytesNWholeSlot(id, code) ==
  IF id.n < 0 \/ id.n > 32 THEN Panic
  ELSE IF ~sliceOk(code, 0, 32) \/ ~fromOk(code, 32) THEN Panic
  ELSE DOk(marshalBytes(slice(code, 0, 32)), from(code, 32))

\* the bytes1 .. bytes32 case of decode
decodeBytesN(id, code) ==
  IF id.n < 0 \/ id.n > 32 THEN Panic
  ELSE IF ~sliceOk(code, 0, 32) \/ ~fromOk(code, 32) THEN Panic
  ELSE DOk(marshalBytes(slice(code, 0, id.n)), from(code, 32))

\* the Elementary case of decode
decodeElementary(t, code, offset) ==
  LET id == normalizeElementaryTypeName(t)
  IN CASE id.name \in {"fixed", "ufixed"} -> DErr("fixed/ufixed types not supported yet")
       [] id.name \in {"int", "uint"} -> decodeInteger(id, code)
       [] id.name = "bytes" /\ ~id.sized -> decodeBytes(code, offset)
       [] id.name = "bytes" /\ id.sized -> decodeBytesN(id, code)
       [] OTHER -> Panic

\* the Enum case of decode
decodeEnum(t, code) ==
  IF ~sliceOk(code, 0, 32) THEN Panic
  ELSE LET idx == Int64(slice(code, 0, 32))
       IN IF ~idx.fits \/ idx.n >= Len(t.cases) \/ ~fromOk(code, 32) THEN Panic
          ELSE DOk(JStr(t.cases[idx.n + 1]), from(code, 32))

RECURSIVE decode(_, _, _)
RECURSIVE decodeEach(_, _, _, _, _)

decode(t, code, offset) ==
  CASE t.k = "Named" -> decode(t.Type, code, offset)
    [] t.k \in {"ContractAddress", "InterfaceAddress", "LibraryAddress"} ->
         decode(addressType, code, offset)
    [] t.k = "Enum" -> decodeEnum(t, code)
    [] t.k = "Tuple" ->
         LET r == decodeEach(t.ts, code, offset, 1, <<>>)
         IN IF r.st = "ok" THEN DOk(JArr(r.val), r.code) ELSE r
    [] t.k = "Struct" ->
         LET r == decodeEach(t.Types, code, offset, 1, <<>>)
         IN IF r.st = "ok"
            THEN DOk(JObj([key \in {t.Keys[i] : i \in 1..Len(t.Keys)} |->
                            LET last == CHOOSE i \in 1..Len(t.Keys) :
                                          /\ t.Keys[i] = key
                                          /\ \A h \in 1..Len(t.Keys) : t.Keys[h] = key => h <= i
                            IN r.val[last]]),
                     r.code)
            ELSE r
    [] t.k = "Array" ->
         IF IsDynamic(t)
         THEN IF ~sliceOk(code, 0, 32) THEN Panic
              ELSE LET ref == Int64(slice(code, 0, 32))
                   IN IF ~ref.fits \/ ~fromOk(code, ref.n - offset) THEN Panic
                      ELSE LET tail == from(code, ref.n - offset)
                           IN IF ~sliceOk(tail, 0, 32) THEN Panic
                              ELSE LET lng == Int64(slice(tail, 0, 32))
                                   IN \* make(types.Tuple, lng, lng), then tail[32:]
                                      IF ~lng.fits \/ ~fromOk(tail, 32) THEN Panic
                                      ELSE LET r == decode(Tuple(Rep(lng.n, t.Type)),
                                                           from(tail, 32), 0)
                                           IN IF r.st # "ok" THEN r
                                              ELSE IF ~fromOk(code, 32) THEN Panic
                                              ELSE DOk(r.val, from(code, 32))
         ELSE IF t.Length = 0 THEN DOk(JArr(<<>>), code)
         ELSE LET r == decodeEach(Rep(t.Length, t.Type), code, offset, 1, <<>>)
              IN IF r.st = "ok" THEN DOk(JArr(r.val), r.code) ELSE r
    [] t.k = "Elementary" -> decodeElementary(t, code, offset)
    [] OTHER -> Panic

\* the loops over the members of a Tuple or Struct and the elements of an Array
decodeEach(ts, code, offset, i, out) ==
  IF i > Len(ts) THEN DOk(out, code)
  ELSE LET r == decode(ts[i], code, offset)
       IN IF r.st # "ok" THEN r
          ELSE decodeEach(ts, r.code, offset + (Len(code.b) - Len(r.code.b)), i + 1,
                          Append(out, r.val))

Decode(t, code) ==
  LET r == decode(t, code, 0)
  IN IF r.st = "ok" THEN [st |-> "ok", val |-> r.val] ELSE r

(***************************************************************************)
(* The inputs: the types and, for each type, the JSON arguments the        *)
(* callers hand to Encode (legal and illegal ones), and the buffers handed *)
(* to Decode.                                                              *)
(***************************************************************************)

\* the longest array argument of a top-level dynamic Array
MaxArrayLen == 3

\* the longest array argument of a nested dynamic Array
MaxInnerLen == 1

RECURSIVE Prod(_)
Prod(sets) ==
  IF sets = <<>> THEN {<<>>}
  ELSE {<<h>> \o t : h \in Head(sets), t \in Prod(Tail(sets))}

SeqsUpTo(S, n) == UNION {Prod(Rep(m, S)) : m \in 0..n}

\* magnitudes: 2^k, and 2^k - 1
Pow2(k) == <<2 ^ (k % 8)>> \o Zeros(k \div 8)
Pow2Less1(k) == IF k % 8 = 0 THEN Rep(k \div 8, 255)
                ELSE <<2 ^ (k % 8) - 1>> \o Rep(k \div 8, 255)

NumOf(neg, mag) == JNum(Text(BigInt(neg, mag), 10))
HexOf(mag) == JStr(<<48, 120>> \o Text(BigInt(FALSE, mag), 16))
StrA(n) == JStr(Rep(n, 97))

\* the magnitudes at the edges of the M-bit ranges and of the 32-bit text policy
EdgeMags(M) ==
  {<<>>, <<1>>, Pow2Less1(M - 1), Pow2(M - 1), MulAdd(Pow2(M - 1), 1, 1),
   Pow2Less1(M), Pow2(M), Pow2Less1(32), Pow2(32), Pow2(248), Pow2(255)}

IntArgs(M) ==
  {NumOf(FALSE, m) : m \in EdgeMags(M)} \cup {NumOf(TRUE, m) : m \in EdgeMags(M)}
    \cup {HexOf(m) : m \in EdgeMags(M)}
    \cup {JNum(<<49, 46, 53>>), JNum(<<49, 101, 51>>), JStr(<<102, 102>>), JStr(<<48, 120>>),
          JStr(<<48, 120, 122>>), JNull, JArr(<<>>)}

SmallIntArgs == {JNum(<<49>>), JNum(<<50>>), JNum(<<51>>), HexOf(<<1, 255>>)}

BytesArgs ==
  {StrA(n) : n \in {0, 1, 31, 32, 33, 64}}
    \cup {JStr(<<195, 169>>), JArr(<<JNum(<<50, 53, 53>>)>>),
          JArr(<<JNum(<<49, 48, 52>>), JNum(<<49, 48, 53>>)>>), JArr(<<JNum(<<49, 57, 53>>)>>),
          JArr(<<JNull>>), JArr(<<>>), JArr(<<JNum(<<50, 53, 54>>)>>), JArr(<<StrA(1)>>),
          JArr(<<JNum(<<45, 49>>)>>), JNull, JNum(<<49>>)}

SmallBytesArgs == {StrA(1), StrA(32), JArr(<<JNum(<<50, 53, 53>>)>>)}

BytesNArgs(n) ==
  {StrA(l) : l \in {0, 1, n - 1, n, n + 1}}
    \cup {JStr(<<195, 169>>), JArr(Rep(n, JNum(<<50, 53, 53>>))), JArr(Rep(n, JNum(<<57, 55>>))),
          JArr(Rep(n - 1, JNum(<<57, 55>>))), JArr(Rep(n + 1, JNum(<<57, 55>>))), JNull}

Red == <<82, 101, 100>>
Green == <<71, 114, 101, 101, 110>>
Blue == <<66, 108, 117, 101>>
Purple == <<80, 117, 114, 112, 108, 101>>

\* every total assignment of the keys to values of their types, as JSON objects
ObjectsOver(keys, sets) ==
  {JObj([key \in {keys[i] : i \in 1..Len(keys)} |->
          vs[CHOOSE i \in 1..Len(keys) : keys[i] = key]]) : vs \in Prod(sets)}

WithoutKey(o, key) == JObj([x \in DOMAIN o.m \ {key} |-> o.m[x]])
WithKey(o, key, v) == JObj([x \in DOMAIN o.m \cup {key} |-> IF x = key THEN v ELSE o.m[x]])

\* the arguments tried for a type: at depth 0 the full sets, below the small ones
RECURSIVE Args(_, _)
Args(t, d) ==
  CASE t.k = "Named" -> Args(t.Type, d)
    [] t.k \in {"ContractAddress", "InterfaceAddress", "LibraryAddress"} -> Args(addressType, d)
    [] t.k = "Enum" ->
         {JStr(t.cases[i]) : i \in 1..Len(t.cases)}
           \cup (IF d = 0 THEN {JStr(Purple), JNull, JNum(<<49>>)} ELSE {})
    [] t.k = "Tuple" ->
         {JArr(s) : s \in Prod([i \in 1..Len(t.ts) |-> Args(t.ts[i], d + 1)])}
           \cup (IF d = 0 THEN {JArr(<<StrA(1), StrA(1), StrA(1), StrA(1)>>), JNull, StrA(1)} ELSE {})
    [] t.k = "Struct" ->
         LET os == ObjectsOver(t.Keys, [i \in 1..Len(t.Types) |-> Args(t.Types[i], d + 1)])
         IN os \cup (IF d = 0 /\ t.Keys = <<>> THEN {WithKey(o, "zz", JNull) : o \in os}
                     ELSE {})
               \cup (IF d = 0 /\ t.Keys # <<>>
                     THEN {WithoutKey(o, t.Keys[1]) : o \in os}
                            \cup {WithKey(o, "zz", JNull) : o \in os}
                            \cup {WithKey(WithoutKey(o, t.Keys[1]), "zz", JNull) : o \in os}
                     ELSE {})
               \cup (IF d = 0 THEN {JNull, JArr(<<>>)} ELSE {})
    [] t.k = "Array" ->
         IF IsDynamic(t)
         THEN {JArr(s) : s \in SeqsUpTo(Args(t.Type, d + 1),
                                        IF d = 0 THEN MaxArrayLen ELSE MaxInnerLen)}
                \cup (IF d = 0 THEN {JNull, StrA(1)} ELSE {})
         ELSE {JArr(s) : s \in Prod(Rep(t.Length, Args(t.Type, d + 1)))}
                \cup (IF d = 0 THEN {JArr(Rep(t.Length + 1, StrA(1))), JNull} ELSE {})
    [] t.k = "Elementary" ->
         LET id == normalizeElementaryTypeName(t)
         IN CASE id.name \in {"int", "uint"} /\ id.sized ->
                   IF d = 0 THEN IntArgs(id.n) ELSE SmallIntArgs
              [] id.name = "bytes" /\ ~id.sized ->
                   IF d = 0 THEN BytesArgs ELSE SmallBytesArgs
              [] id.name = "bytes" /\ id.sized ->
                   IF d = 0 THEN BytesNArgs(id.n) ELSE {StrA(1), StrA(id.n)}
              [] OTHER -> {JNum(<<49>>)}

uint8 == ElN("uint", 8)
uint256 == ElN("uint", 256)
bytes == El("bytes")
Color == Enum(<<Red, Green, Blue>>)
Pair == Struct(<<"id", "data">>, <<uint8, bytes>>)

IntegerTypes == {ElN(name, 8 * i) : name \in {"int", "uint"}, i \in 1..32}

BytesNTypes == {ElN("bytes", n) : n \in 1..32}

LeafTypes ==
  IntegerTypes \cup BytesNTypes
    \cup {bytes, El("string"), El("address"), El("int"), El("uint"), El("byte"), El("fixed"),
          El("bool"), Color, Named("a.sol:C.Color", Color), ContractAddress("a.sol:C"),
          InterfaceAddress("a.sol:I"), LibraryAddress("a.sol:L")}

CompositeTypes ==
  {Tuple(<<>>), Tuple(<<uint256>>), Tuple(<<bytes>>), Tuple(<<uint256, bytes>>),
   Tuple(<<bytes, bytes>>), Tuple(<<ElN("bytes", 3)>>), Tuple(<<Color, ElN("int", 64)>>),
   Array(DynamicArrayLength, uint256), Tuple(<<Array(DynamicArrayLength, uint256)>>),
   Tuple(<<Array(DynamicArrayLength, bytes)>>), Tuple(<<uint8, Array(DynamicArrayLength, bytes)>>),
   Tuple(<<Array(DynamicArrayLength, Array(DynamicArrayLength, uint8))>>),
   Array(2, uint8), Array(0, uint8), Tuple(<<Array(2, bytes)>>),
   Tuple(<<Array(DynamicArrayLength, Array(2, uint8))>>),
   Pair, Struct(<<"a", "b">>, <<uint8, ElN("int", 16)>>), Struct(<<"s">>, <<El("string")>>),
   Tuple(<<Pair>>), Tuple(<<uint8, Pair>>), Tuple(<<Array(DynamicArrayLength, Pair)>>),
   Named("a.sol:C.Pair", Pair), Struct(<<>>, <<>>), Tuple(<<uint8, Color>>),
   Tuple(<<Tuple(<<bytes>>)>>), Tuple(<<uint8, Tuple(<<uint8, bytes>>)>>),
   Tuple(<<Tuple(<<uint8, uint8>>)>>), Tuple(<<Array(DynamicArrayLength, Tuple(<<bytes>>))>>)}

Types == LeafTypes \cup CompositeTypes

\* the capacity of the head buffer Encode allocates and returns its bytes in
HeadCap == 1024

\* append(head, tail...) as a slice: the bytes, then what is left of the zeroed buffer
Returned(code) ==
  Code(code, IF Len(code) <= HeadCap THEN Zeros(HeadCap - Len(code)) ELSE <<>>)

\* buffers that no Encode of the type has written: short, with offsets, lengths
\* and indices that point outside, or simply another type's
ForeignCodes ==
  {<<>>, Zeros(31), encodeInt(0), encodeInt(1), encodeInt(3), Rep(32, 255),
   <<128>> \o Zeros(31), encodeInt(32), encodeInt(64),
   encodeInt(32) \o encodeInt(5), encodeInt(32) \o Rep(32, 255),
   encodeInt(32) \o encodeInt(1) \o <<255>> \o Zeros(31),
   encodeInt(32) \o encodeInt(2) \o encodeInt(1) \o encodeInt(2),
   encodeInt(7) \o encodeInt(64) \o encodeInt(1) \o <<97>> \o Zeros(31)}

\* what may lie behind a foreign buffer in its backing array
ForeignSlacks == {<<>>, encodeInt(2) \o <<104, 105>> \o Zeros(30)}

None == [st |-> "none"]

\* package auth is not part of the run
AuthUnused ==
  /\ registered = None
  /\ store = None
  /\ timers = None
  /\ expired = None
  /\ written = None
  /\ goroutines = None
  /\ ret = None

\* A caller either has an argument to encode (and decodes what it gets), or
\* has received a buffer to decode.
Init ==
  /\ typ \in Types
  /\ \/ pc = "start" /\ arg \in Args(typ, 0)
     \/ pc = "received" /\ arg = None
  /\ enc = None
  /\ buf = None
  /\ dec = None
  /\ combined = None
  /\ project = None
  /\ req = None
  /\ res = None
  /\ eth = <<>>
  /\ unresolved = None
  /\ resolving = None
  /\ AuthUnused

\* code, e := abi.Encode(typ, arg)
EncodeStep ==
  /\ pc = "start"
  /\ enc' = Encode(typ, arg)
  /\ pc' = "encoded"
  /\ UNCHANGED <<typ, arg, buf, dec>>
  /\ UNCHANGED linkVars
  /\ UNCHANGED resolveVars
  /\ UNCHANGED authVars

\* value, e := abi.Decode(typ, code) on the bytes Encode returned
DecodeStep ==
  /\ pc = "encoded"
  /\ enc.st = "ok"
  /\ buf' = Returned(enc.code)
  /\ dec' = Decode(typ, buf')
  /\ pc' = "decoded"
  /\ UNCHANGED <<typ, arg, enc>>
  /\ UNCHANGED linkVars
  /\ UNCHANGED resolveVars
  /\ UNCHANGED authVars

\* value, e := abi.Decode(typ, code) on a buffer from elsewhere
DecodeForeign ==
  /\ pc = "received"
  /\ \E b \in ForeignCodes, slack \in ForeignSlacks : buf' = Code(b, slack)
  /\ dec' = Decode(typ, buf')
  /\ pc' = "foreign"
  /\ UNCHANGED <<typ, arg, enc>>
  /\ UNCHANGED linkVars
  /\ UNCHANGED resolveVars
  /\ UNCHANGED authVars

Next == EncodeStep \/ DecodeStep \/ DecodeForeign

Spec == Init /\ [][Next]_vars

(***************************************************************************)
(* The properties of the codec, stated over the caller's states            *)
(***************************************************************************)

\* whether a JSON argument is an integer literal: decimal text, or a string
\* of "0x" and hexadecimal digits
IsIntArg(a) ==
  \/ a.j = "num" /\ ~ContainsExpOrPoint(a.text) /\ SetStringDec(a.text).ok
  \/ a.j = "str" /\ Has0xPrefix(a.s) /\ SetStringHex(a.s).ok

\* the integer such a literal denotes
ArgInt(a) == IF a.j = "num" THEN SetStringDec(a.text).val ELSE SetStringHex(a.s).val

\* -2^(M-1) <= x <= 2^(M-1) - 1 for intM, 0 <= x <= 2^M - 1 for uintM
InRange(id, x) ==
  IF id.name = "uint" THEN ~x.neg /\ BitLen(x) <= id.n
  ELSE BitLen(x) <= id.n - 1 \/ (x.neg /\ x.mag = Pow2(id.n - 1))

\* 2^256 - mag, for 0 < mag <= 2^255
Complement256(mag) ==
  LET cs == Zeros(32 - Len(mag)) \o mag
  IN Norm(MulAddRaw([i \in 1..32 |-> 255 - cs[i]], 1, 1))

\* the bytes a JSON argument of a bytes type denotes
Payload(a) == IF a.j = "arr" THEN unmarshalBytes(a).temp ELSE a.s

\* a byte as a JSON number
ByteNumber(b) == JNum(Text(BigInt(FALSE, NatBytes(b)), 10))

\* bytes as JSON: a string when they are valid UTF-8, else an array of numbers
BytesJSON(p) ==
  IF utf8Valid(p) THEN JStr(p) ELSE JArr([i \in 1..Len(p) |-> ByteNumber(p[i])])

\* an integer as JSON: decimal text when its magnitude fits in 32 bits, else
\* "0x" and the hexadecimal digits (of the 256-bit word, for a negative one)
IntJSON(x) ==
  IF BitLen(x) <= 32 THEN JNum(Text(x, 10))
  ELSE JStr(<<48, 120>> \o Text(BigInt(FALSE, IF x.neg THEN Complement256(x.mag) ELSE x.mag), 16))

\* canonicalize, along the type: integers and bytes as above, the rest unchanged
\* (an absent array or object reads as an empty one)
RECURSIVE canonicalize(_, _)
canonicalize(t, v) ==
  CASE t.k = "Named" -> canonicalize(t.Type, v)
    [] t.k \in {"ContractAddress", "InterfaceAddress", "LibraryAddress"} ->
         canonicalize(addressType, v)
    [] t.k = "Tuple" ->
         LET items == unmarshalArray(v).temp
         IN JArr([i \in 1..Len(items) |-> canonicalize(t.ts[i], items[i])])
    [] t.k = "Array" ->
         LET items == unmarshalArray(v).temp
         IN JArr([i \in 1..Len(items) |-> canonicalize(t.Type, items[i])])
    [] t.k = "Struct" ->
         LET m == unmarshalObject(v).temp
         IN JObj([key \in DOMAIN m |->
                    canonicalize(t.Types[CHOOSE i \in 1..Len(t.Keys) : t.Keys[i] = key], m[key])])
    [] t.k = "Elementary" ->
         LET id == normalizeElementaryTypeName(t)
         IN CASE id.name \in {"int", "uint"} -> IntJSON(ArgInt(v))
              [] id.name = "bytes" -> BytesJSON(Payload(v))
              [] OTHER -> v
    [] OTHER -> v

\* C1: round trip.  Whenever Encode accepted the argument, Decode of the bytes
\* it returned succeeds and yields canonicalize of the argument.
C1_RoundTrip ==
  pc = "decoded" => dec.st = "ok" /\ dec.val = canonicalize(typ, arg)

\* C2: in the output of a successful Encode of a Tuple, every offset word
\* written for a dynamic value equals the position of that value's length
\* word, counted from the start of its region (the output, or the elements
\* of the dynamic Array it is in), at every nesting depth.
C2_OffsetsPointAtLengthWords ==
  pc = "encoded" /\ enc.st = "ok" /\ typ.k = "Tuple"
    => \A i \in 1..Len(enc.offsets) : enc.offsets[i].off = enc.offsets[i].pos

\* the words of integer arguments, one after the other
RECURSIVE Words(_)
Words(items) ==
  IF items = <<>> THEN <<>> ELSE encodeInt256(ArgInt(Head(items))) \o Words(Tail(items))

\* whether a type is encoded through an offset
IsBytes(t) == t.k = "Elementary" /\ normalizeElementaryTypeName(t) = bytes

\* C3: Encode of a dynamic type that is not wrapped in a Tuple writes the
\* offset 32 into the head word; for an Array of uint256 the tail follows,
\* the length word and one word per element.
C3_BareDynamicOffset ==
  pc = "encoded" /\ enc.st = "ok" /\ (IsBytes(typ) \/ (typ.k = "Array" /\ IsDynamic(typ)))
    => /\ SubSeq(enc.code, 1, 32) = encodeInt(32)
       /\ typ = Array(DynamicArrayLength, uint256)
            => LET items == unmarshalArray(arg).temp
               IN enc.code = encodeInt(32) \o encodeInt(Len(items)) \o Words(items)

\* C4: Encode of an integer literal for intM / uintM succeeds exactly when the
\* integer is in the range of the type, and fails with the value-out-of-range
\* error otherwise.
C4_IntegerRange ==
  pc = "encoded" /\ typ \in IntegerTypes /\ IsIntArg(arg)
    => IF InRange(typ, ArgInt(arg)) THEN enc.st = "ok"
       ELSE enc.st = "err" /\ enc.msg = "value too large"

\* C5: Decode of a foreign buffer returns a value or an error, never aborts,
\* and its result does not depend on what lies behind the buffer.
C5_DecodeTotal ==
  pc = "foreign"
    => /\ dec.st \in {"ok", "err"}
       /\ \A slack \in ForeignSlacks : Decode(typ, Code(buf.b, slack)) = dec

\* C6: Encode of a bytes / string payload of length L puts behind the head
\* word the length word and exactly 32 * ceil(L / 32) bytes, the payload and
\* then zeros: no padding when L is a multiple of 32.
C6_BytesPadding ==
  pc = "encoded" /\ enc.st = "ok" /\ IsBytes(typ)
    => LET p == Payload(arg)
           L == Len(p)
       IN SubSeq(enc.code, 33, Len(enc.code))
            = encodeInt(L) \o p \o Zeros(32 * ((L + 31) \div 32) - L)

\* the payload of a bytes value whose head word is the first word of a buffer
BufferPayload(c) ==
  LET ref == Int64(slice(c, 0, 32)).n
      lng == Int64(slice(c, ref, ref + 32)).n
  IN slice(c, ref + 32, ref + 32 + lng)

\* whether that payload lies within the bytes of the buffer
HoldsPayload(c) ==
  /\ Len(c.b) >= 32
  /\ LET ref == Int64(slice(c, 0, 32))
     IN /\ ref.fits /\ ref.n + 32 <= Len(c.b)
        /\ LET lng == Int64(slice(c, ref.n, ref.n + 32))
           IN lng.fits /\ ref.n + 32 + lng.n <= Len(c.b)

IsBytesN(t) ==
  t.k = "Elementary" /\ normalizeElementaryTypeName(t).name = "bytes"
    /\ normalizeElementaryTypeName(t).sized

\* C7: Decode of bytes / string returns a JSON string when the payload is
\* valid UTF-8 and an array of byte numbers otherwise; Decode of bytesN does
\* the same with the first N bytes of the slot.
C7_BytesAsStringOrNumbers ==
  pc \in {"decoded", "foreign"} /\ dec.st = "ok"
    => /\ IsBytes(typ) /\ HoldsPayload(buf) => dec.val = BytesJSON(BufferPayload(buf))
       /\ IsBytesN(typ) /\ Len(buf.b) >= 32
            => dec.val = BytesJSON(slice(buf, 0, normalizeElementaryTypeName(typ).n))

Denoted(v) ==
  IF v.j = "num" THEN SetStringDec(v.text).val
  ELSE IF v.s # <<>> /\ v.s[1] = 45
       THEN LET x == SetStringHex(Tail(v.s)).val IN BigInt(TRUE, x.mag)
       ELSE SetStringHex(v.s).val

\* C9: Decode of the word Encode wrote for an integer v in the range of the
\* type is decimal text exactly when the bit length of v is at most 32, a
\* "0x" string otherwise, and denotes v, negative v included.
C9_IntegerText ==
  pc = "decoded" /\ typ \in IntegerTypes /\ InRange(typ, ArgInt(arg))
    => /\ dec.st = "ok"
       /\ dec.val.j = "num" <=> BitLen(ArgInt(arg)) <= 32
       /\ dec.val.j \in {"num", "str"}
       /\ Denoted(dec.val) = ArgInt(arg)

\* C10: for an object with exactly the keys of a Struct, Encode of the Struct
\* succeeds when Encode of the Tuple of its field types on the values in key
\* order does, and returns the same bytes.
C10_StructAsTuple ==
  pc = "encoded" /\ typ.k = "Struct" /\ arg.j = "obj"
      /\ DOMAIN arg.m = {typ.Keys[i] : i \in 1..Len(typ.Keys)}
    => LET tup == Encode(Tuple(typ.Types),
                         JArr([i \in 1..Len(typ.Keys) |-> arg.m[typ.Keys[i]]]))
       IN enc.st = tup.st /\ (enc.st = "ok" => enc.code = tup.code)

\* the keys of a Struct, as a set
KeySet(t) == {t.Keys[i] : i \in 1..Len(t.Keys)}

\* the messages of the Struct case about the keys of the object
StructKeyErrors == {"too many or too few keys in object", "missing key in object"}

\* whether Encode returned an error and no bytes
ErrorAndNoBytes(e) == e.st = "err" /\ "code" \notin DOMAIN e

C12_HeadWidth ==
  pc = "encoded" /\ typ.k = "Tuple" /\ enc.st # "err"
    => /\ enc.st = "ok"
       /\ Len(enc.code) % 32 = 0
       /\ enc.headLen = width(typ)
       /\ Len(enc.code) >= width(typ)

\* C12, the case: a Tuple with a dynamic member was encoded into a head and a tail
C12_HeadAndTail ==
  /\ pc = "encoded"
  /\ typ.k = "Tuple"
  /\ enc.st = "ok"
  /\ enc.headLen > 32
  /\ Len(enc.code) > enc.headLen

\* the element of an argument a path leads to, with its type
RECURSIVE ElementAt(_, _, _)
ElementAt(t, a, path) ==
  IF t.k = "Named" THEN ElementAt(t.Type, a, path)
  ELSE IF path = <<>> THEN [ok |-> TRUE, t |-> t, a |-> a]
  ELSE LET step == Head(path)
       IN CASE "i" \in DOMAIN step /\ t.k = "Tuple" /\ a.j = "arr"
                 /\ step.i < Len(a.items) /\ step.i < Len(t.ts) ->
                 ElementAt(t.ts[step.i + 1], a.items[step.i + 1], Tail(path))
            [] "i" \in DOMAIN step /\ t.k = "Array" /\ a.j = "arr" /\ step.i < Len(a.items) ->
                 ElementAt(t.Type, a.items[step.i + 1], Tail(path))
            [] "k" \in DOMAIN step /\ t.k = "Struct" /\ a.j = "obj"
                 /\ step.k \in DOMAIN a.m /\ step.k \in KeySet(t) ->
                 ElementAt(t.Types[CHOOSE i \in 1..Len(t.Keys) : t.Keys[i] = step.k],
                           a.m[step.k], Tail(path))
            [] OTHER -> [ok |-> FALSE]

\* C13: when Encode fails it returns one error and no bytes; the path of the
\* error leads, from the outermost index or key to the innermost, to an
\* element of the argument, and the message is the one that element fails with.
C13_ErrorPath ==
  pc = "encoded" /\ enc.st = "err"
    => /\ ErrorAndNoBytes(enc)
       /\ LET e == ElementAt(typ, arg, enc.path)
          IN /\ e.ok
             /\ LET r == encode(e.t, e.a, 0, <<>>, <<>>, NoRefs)
                IN r.st = "err" /\ r.path = <<>> /\ r.msg = enc.msg

\* C13, the case: the failing element is two levels down, behind an element
\* that was encoded
C13_NestedFailure ==
  /\ pc = "encoded"
  /\ enc.st = "err"
  /\ Len(enc.path) = 2
  /\ enc.path[1] = [i |-> 1]
  /\ enc.path[2] = [k |-> "id"]

\* C14: Encode of an Enum succeeds exactly on a JSON string that is one of
\* the case names, and writes the index of the case as a 32-byte word;
\* Decode of the word returns the case name; any other string is rejected
\* with the error that lists the case names.
C14_Enum ==
  pc \in {"encoded", "decoded"} /\ typ.k = "Enum"
    => IF arg.j = "str" /\ \E i \in 1..Len(typ.cases) : typ.cases[i] = arg.s
       THEN LET i == CHOOSE i \in 1..Len(typ.cases) : typ.cases[i] = arg.s
            IN /\ enc.st = "ok"
               /\ enc.code = encodeInt(i - 1)
               /\ pc = "decoded" => dec = [st |-> "ok", val |-> JStr(typ.cases[i])]
       ELSE /\ ErrorAndNoBytes(enc)
            /\ arg.j = "str"
                 => /\ enc.msg = "unexpected enum case"
                    /\ enc.have = arg.s
                    /\ enc.expected = typ.cases

\* C14, the case: the last case of an Enum went through Encode and Decode
C14_LastCaseDecoded ==
  /\ pc = "decoded"
  /\ typ.k = "Enum"
  /\ arg = JStr(typ.cases[Len(typ.cases)])
  /\ dec.st = "ok"

(***************************************************************************)
(* package types, the variants the codec refuses: Reference, Mapping and   *)
(* Event; Type.Map and Type.SoliditySignature.  Names, paths and           *)
(* signatures are strings.                                                 *)
(***************************************************************************)

Reference(id) == [k |-> "Reference", id |-> id]
Mapping(key, value) == [k |-> "Mapping", Key |-> key, Value |-> value]
Event(name, args) == [k |-> "Event", Name |-> name, Args |-> args]

\* []byte(t) of an Elementary: the identifier
ElementaryText(t) == IF t.sized THEN t.name \o ToString(t.n) ELSE t.name

\* the members a type holds other types in
Members(t) ==
  CASE t.k = "Tuple" -> t.ts
    [] t.k = "Struct" -> t.Types
    [] t.k = "Event" -> t.Args
    [] t.k = "Array" -> <<t.Type>>
    [] t.k = "Mapping" -> <<t.Key, t.Value>>
    [] t.k = "Named" -> <<t.Type>>
    [] OTHER -> <<>>

\* Reference.SoliditySignature panics: a signature is computed only of a type
\* that holds no Reference
RECURSIVE signaturePanics(_)
signaturePanics(t) ==
  \/ t.k = "Reference"
  \/ \E i \in 1..Len(Members(t)) : signaturePanics(Members(t)[i])

\* the signatures of ts[i..], with a comma before each but the first of ts
RECURSIVE SoliditySignature(_)
RECURSIVE joinSignatures(_, _)
joinSignatures(ts, i) ==
  IF i > Len(ts) THEN ""
  ELSE (IF i > 1 THEN "," ELSE "") \o SoliditySignature(ts[i]) \o joinSignatures(ts, i + 1)

SoliditySignature(t) ==
  CASE t.k = "Elementary" -> ElementaryText(t)
    [] t.k = "Event" -> t.Name \o "(" \o joinSignatures(t.Args, 1) \o ")"
    [] t.k = "Tuple" -> "(" \o joinSignatures(t.ts, 1) \o ")"
    [] t.k = "Struct" -> "(" \o joinSignatures(t.Types, 1) \o ")"
    [] t.k = "Array" ->
         SoliditySignature(t.Type) \o "["
           \o (IF ~IsDynamic(t) THEN ToString(t.Length) ELSE "") \o "]"
    [] t.k = "Mapping" ->
         "mapping(" \o SoliditySignature(t.Key) \o " => " \o SoliditySignature(t.Value) \o ")"
    [] t.k = "Enum" -> "uint8"
    [] t.k = "Named" -> SoliditySignature(t.Type)
    [] t.k \in {"ContractAddress", "InterfaceAddress", "LibraryAddress"} -> "address"

\* types.Function
Function(name, visibility, mutability, inputs, outputs, definition) ==
  [Name |-> name, Visibility |-> visibility, StateMutability |-> mutability,
   Inputs |-> inputs, Outputs |-> outputs, Definition |-> definition]

FallbackFunctionName == ""

\* a signature without the name of the function
FunctionSignatureUnnamed(f) == "(" \o joinSignatures(f.Inputs, 1) \o ")"

\* Function.SoliditySignature
FunctionSignature(f) == f.Name \o "(" \o joinSignatures(f.Inputs, 1) \o ")"

\* the keys of a types.Map
Refs(typeMap) == DOMAIN typeMap

\* the ids of the References a type holds
RECURSIVE RefsIn(_)
RefsIn(t) ==
  IF t.k = "Reference" THEN {t.id}
  ELSE UNION {RefsIn(Members(t)[i]) : i \in 1..Len(Members(t))}

\* the ids resolve comes to from the References ids, through the map
RECURSIVE Reached(_, _, _)
Reached(typeMap, ids, seen) ==
  LET fresh == ids \ seen IN
  IF fresh = {} THEN seen
  ELSE Reached(typeMap,
               UNION {RefsIn(typeMap[r]) : r \in fresh \cap Refs(typeMap)},
               seen \cup fresh)

\* Map.Deref panics ("missing typemap key"): resolving t comes to an id that
\* is no key of the map
DerefPanics(typeMap, t) == ~(Reached(typeMap, RefsIn(t), {}) \subseteq Refs(typeMap))

\* resolve never returns: a type of the map is reached from its own
\* References (the goroutine's stack overflows)
ResolveLoops(typeMap) ==
  \E r \in Refs(typeMap) : r \in Reached(typeMap, RefsIn(typeMap[r]), {})

\* Map.Deref
RECURSIVE Deref(_, _)
Deref(typeMap, ref) ==
  LET t == typeMap[ref] IN
  IF t.k = "Reference" THEN Deref(typeMap, t.id) ELSE t

\* t.Map(resolve), with resolve the closure of Project over typeMap:
\* a Reference becomes typeMap.Deref(ref).Map(resolve), the variants that
\* hold types are rebuilt around their mapped members, the others are kept
RECURSIVE Map(_, _)
RECURSIVE MapEach(_, _, _)
MapEach(typeMap, ts, i) ==
  IF i > Len(ts) THEN <<>>
  ELSE <<Map(typeMap, ts[i])>> \o MapEach(typeMap, ts, i + 1)

resolve(typeMap, t) ==
  IF t.k = "Reference" THEN Map(typeMap, Deref(typeMap, t.id)) ELSE t

Map(typeMap, t) ==
  CASE t.k = "Reference" -> resolve(typeMap, t)
    [] t.k = "Event" -> Event(t.Name, MapEach(typeMap, t.Args, 1))
    [] t.k = "Tuple" -> Tuple(MapEach(typeMap, t.ts, 1))
    [] t.k = "Struct" -> Struct(t.Keys, MapEach(typeMap, t.Types, 1))
    [] t.k = "Array" -> Array(t.Length, Map(typeMap, t.Type))
    [] t.k = "Mapping" -> Mapping(Map(typeMap, t.Key), Map(typeMap, t.Value))
    [] t.k = "Named" -> Named(t.Name, Map(typeMap, t.Type))
    [] OTHER -> resolve(typeMap, t)

(***************************************************************************)
(* package ast: the nodes UnserializeJSON builds.  A node is a record with *)
(* its kind, the id of its header and, where the kind keeps them, its      *)
(* children.  An ElementaryTypeName carries its type as the Elementary it  *)
(* names; an EnumValue's name is a case name of the Enum.                  *)
(***************************************************************************)

ContractKindContract == "contract"
ContractKindInterface == "interface"
ContractKindLibrary == "library"

VisibilityPublic == "public"
VisibilityInternal == "internal"
VisibilityExternal == "external"
VisibilityPrivate == "private"

StateMutabilityPure == "pure"
StateMutabilityView == "view"
StateMutabilityNonpayable == "nonpayable"

SourceUnit(id, children) == [node |-> "SourceUnit", id |-> id, children |-> children]

ContractDefinition(id, name, kind, linearized, children) ==
  [node |-> "ContractDefinition", id |-> id, Name |-> name, ContractKind |-> kind,
   LinearizedBaseContracts |-> linearized, children |-> children]

StructDefinition(id, canonicalName, children) ==
  [node |-> "StructDefinition", id |-> id, CanonicalName |-> canonicalName,
   children |-> children]

VariableDeclaration(id, name, visibility, children) ==
  [node |-> "VariableDeclaration", id |-> id, Name |-> name, Visibility |-> visibility,
   children |-> children]

ElementaryTypeName(id, type) == [node |-> "ElementaryTypeName", id |-> id, Type |-> type]

ParameterList(id, children) == [node |-> "ParameterList", id |-> id, children |-> children]

\* UnserializeJSON builds a FunctionDefinition without its header: its id is 0
FunctionDefinition(name, isConstructor, visibility, stateMutability, children) ==
  [node |-> "FunctionDefinition", id |-> 0, Name |-> name, IsConstructor |-> isConstructor,
   Visibility |-> visibility, StateMutability |-> stateMutability, children |-> children]

UserDefinedTypeName(id, referencedDeclaration) ==
  [node |-> "UserDefinedTypeName", id |-> id, ReferencedDeclaration |-> referencedDeclaration]

EnumDefinition(id, canonicalName, children) ==
  [node |-> "EnumDefinition", id |-> id, CanonicalName |-> canonicalName,
   children |-> children]

EnumValue(id, name) == [node |-> "EnumValue", id |-> id, Name |-> name]

MappingNode(id, children) == [node |-> "Mapping", id |-> id, children |-> children]

ArrayTypeName(id, type, children) ==
  [node |-> "ArrayTypeName", id |-> id, Type |-> type, children |-> children]

\* CanonicalName is not in the JSON: Types fills it in
EventDefinition(id, name, children) ==
  [node |-> "EventDefinition", id |-> id, Name |-> name, CanonicalName |-> "",
   children |-> children]

Block(id) == [node |-> "Block", id |-> id]

Literal(id) == [node |-> "Literal", id |-> id]

IgnoredNode(id) == [node |-> "IgnoredNode", id |-> id]

\* Node.Children
Children(n) == IF "children" \in DOMAIN n THEN n.children ELSE <<>>

\* PreTraverse: the nodes of the tree in the order f is called on them
RECURSIVE PreTraverse(_)
RECURSIVE PreTraverseEach(_, _)
PreTraverseEach(nodes, i) ==
  IF i > Len(nodes) THEN <<>>
  ELSE PreTraverse(nodes[i]) \o PreTraverseEach(nodes, i + 1)

PreTraverse(root) == <<root>> \o PreTraverseEach(Children(root), 1)

(***************************************************************************)
(* package extract: Type and Types                                         *)
(***************************************************************************)

\* s[i] of a string, 1-based
Char(s, i) == SubSeq(s, i, i)

\* bytes.LastIndex / strings.LastIndex for a one-byte separator, 1-based; 0 if absent
LastIndex(s, c) ==
  LET at == {i \in 1..Len(s) : Char(s, i) = c} IN
  IF at = {} THEN 0 ELSE CHOOSE i \in at : \A j \in at : j <= i

DecimalDigits == <<"0", "1", "2", "3", "4", "5", "6", "7", "8", "9">>

IsDecimal(s) ==
  /\ Len(s) > 0
  /\ \A i \in 1..Len(s) : \E d \in 1..10 : DecimalDigits[d] = Char(s, i)

\* strconv.ParseInt(s, 10, 64) of an unsigned decimal
RECURSIVE ParseInt(_)
ParseInt(s) ==
  IF s = "" THEN 0
  ELSE 10 * ParseInt(SubSeq(s, 1, Len(s) - 1))
         + (CHOOSE d \in 1..10 : DecimalDigits[d] = Char(s, Len(s))) - 1

\* an error of Type
TypeError(msg) == [k |-> "error", msg |-> msg]

FirstError(ts) == ts[CHOOSE i \in 1..Len(ts) : ts[i].k = "error" /\ \A j \in 1..(i - 1) : ts[j].k # "error"]

HasError(ts) == \E i \in 1..Len(ts) : ts[i].k = "error"

RECURSIVE Type(_, _)
RECURSIVE TypeEach(_, _, _)
\* Type of the one child of each VariableDeclaration of params, up to the first failure
TypeEach(path, params, i) ==
  IF i > Len(params) THEN <<>>
  ELSE LET param == params[i] IN
       IF param.node # "VariableDeclaration"
       THEN <<TypeError("children expected to be VariableDeclarations")>>
       ELSE IF Len(Children(param)) # 1
       THEN <<TypeError("variableDeclaration expected to have 1 child")>>
       ELSE LET t == Type(path, Children(param)[1]) IN
            IF t.k = "error" THEN <<t>> ELSE <<t>> \o TypeEach(path, params, i + 1)

\* EventType
EventType(path, eventDefinition) ==
  LET children == Children(eventDefinition) IN
  IF Len(children) # 1 THEN TypeError("expected eventDefinition to have exactly one child")
  ELSE IF children[1].node # "ParameterList"
  THEN TypeError("eventDefinition's child expected to be ParameterList")
  ELSE LET args == TypeEach(path, Children(children[1]), 1) IN
       IF HasError(args) THEN FirstError(args)
       ELSE Named(path \o ":" \o eventDefinition.CanonicalName,
                  Event(eventDefinition.Name, args))

\* StructType
StructType(path, structDefinition) ==
  LET children == Children(structDefinition)
      ts == TypeEach(path, children, 1)
  IN IF HasError(ts) THEN FirstError(ts)
     ELSE Named(path \o ":" \o structDefinition.CanonicalName,
                Struct([i \in 1..Len(children) |-> children[i].Name], ts))

\* EnumType
EnumType(path, enumDefinition) ==
  LET children == Children(enumDefinition) IN
  IF \E i \in 1..Len(children) : children[i].node # "EnumValue"
  THEN TypeError("enumDefinition's children expected to be EnumValues")
  ELSE Named(path \o ":" \o enumDefinition.CanonicalName,
             Enum([i \in 1..Len(children) |-> children[i].Name]))

\* ArrayType: the length of a fixed array is read out of the type name
ArrayType(path, arrayTypeName) ==
  LET children == Children(arrayTypeName) IN
  IF Len(children) = 1
  THEN LET t == Type(path, children[1]) IN
       IF t.k = "error" THEN t ELSE Array(DynamicArrayLength, t)
  ELSE IF Len(children) = 2
  THEN LET name == arrayTypeName.Type
           lenBytes == SubSeq(name, LastIndex(name, "[") + 1, Len(name) - 1)
       IN IF ~IsDecimal(lenBytes) THEN TypeError("strconv.ParseInt: invalid syntax")
          ELSE LET t == Type(path, children[1]) IN
               IF t.k = "error" THEN t ELSE Array(ParseInt(lenBytes), t)
  ELSE TypeError("arrayTypeName expected to have 1 or 2 children")

\* MappingType
MappingType(path, mapping) ==
  LET children == Children(mapping) IN
  IF Len(children) # 2 THEN TypeError("ast.Mapping expected to have exactly two children")
  ELSE LET t1 == Type(path, children[1]) IN
       IF t1.k = "error" THEN t1
       ELSE LET t2 == Type(path, children[2]) IN
            IF t2.k = "error" THEN t2 ELSE Mapping(t1, t2)

Type(path, node) ==
  CASE node.node = "ContractDefinition" ->
         CASE node.ContractKind = ContractKindContract ->
                ContractAddress(path \o ":" \o node.Name)
           [] node.ContractKind = ContractKindInterface ->
                InterfaceAddress(path \o ":" \o node.Name)
           [] node.ContractKind = ContractKindLibrary ->
                LibraryAddress(path \o ":" \o node.Name)
           [] OTHER -> TypeError("unexpected contract kind")
    [] node.node = "UserDefinedTypeName" -> Reference(node.ReferencedDeclaration)
    [] node.node = "ElementaryTypeName" -> node.Type
    [] node.node = "ArrayTypeName" -> ArrayType(path, node)
    [] node.node = "EnumDefinition" -> EnumType(path, node)
    [] node.node = "StructDefinition" -> StructType(path, node)
    [] node.node = "EventDefinition" -> EventType(path, node)
    [] node.node = "Mapping" -> MappingType(path, node)
    [] OTHER -> TypeError("unexpected ast.Node type in extract.Type")

\* the node kinds Types asks Type about
TypedNodes ==
  {"ContractDefinition", "ElementaryTypeName", "ArrayTypeName", "EnumDefinition",
   "EventDefinition", "StructDefinition", "Mapping", "UserDefinedTypeName"}

\* the callback of Types on nodes[i..]: extracted so far, the name of the last
\* ContractDefinition met
RECURSIVE typesVisit(_, _, _, _, _)
typesVisit(path, nodes, i, extracted, contractName) ==
  IF i > Len(nodes) THEN [st |-> "ok", m |-> extracted]
  ELSE LET node == nodes[i]
           name == IF node.node = "ContractDefinition" THEN node.Name ELSE contractName
       IN IF node.node \notin TypedNodes
          THEN typesVisit(path, nodes, i + 1, extracted, name)
          ELSE LET named == IF node.node = "EventDefinition"
                            THEN [node EXCEPT !.CanonicalName = name \o "." \o node.Name]
                            ELSE node
                   t == Type(path, named)
               IN IF t.k = "error" THEN [st |-> "err", msg |-> t.msg]
                  ELSE typesVisit(path, nodes, i + 1, (node.id :> t) @@ extracted, name)

\* an empty types.Map
NoTypes == [r \in {} |-> None]

\* extract.Types
ExtractTypes(path, root) == typesVisit(path, PreTraverse(root), 1, NoTypes, "")

(***************************************************************************)
(* package extract: ContractAPI                                            *)
(***************************************************************************)

\* what a function of the package comes to: a value, an error, or a panic
Done(v) == [st |-> "ok", v |-> v]
Failed(msg) == [st |-> "err", msg |-> msg]

\* ContractDefinitions
ContractDefinitions(root) ==
  SelectSeq(Children(root), LAMBDA child : child.node = "ContractDefinition")

\* variableAccessor with the parameter of each layer put before the earlier ones
RECURSIVE variableAccessorPrepending(_, _)
variableAccessorPrepending(t, prev) ==
  IF t.k = "Mapping" THEN variableAccessorPrepending(t.Value, <<t.Key>> \o prev)
  ELSE IF t.k = "Array" THEN variableAccessorPrepending(t.Type, <<ElN("uint", 256)>> \o prev)
  ELSE [inputs |-> prev, output |-> t]

\* variableAccessor
RECURSIVE variableAccessor(_, _)
variableAccessor(t, prev) ==
  IF t.k = "Mapping" THEN variableAccessor(t.Value, Append(prev, t.Key))
  ELSE IF t.k = "Array" THEN variableAccessor(t.Type, Append(prev, ElN("uint", 256)))
  ELSE [inputs |-> prev, output |-> t]

\* typeMap.Deref(types.Reference(declaration.Children()[0].Header().Id))
declaredType(declaration, typeMap) ==
  IF Children(declaration) = <<>> THEN Panic
  ELSE LET ref == Reference(Children(declaration)[1].id) IN
       IF DerefPanics(typeMap, ref) THEN Panic ELSE Done(Deref(typeMap, ref.id))

\* VariableAPI
VariableAPI(variableDeclaration, typeMap) ==
  LET declared == declaredType(variableDeclaration, typeMap) IN
  IF declared.st # "ok" THEN declared
  ELSE LET acc == variableAccessor(declared.v, <<>>) IN
       Done(Function(variableDeclaration.Name, variableDeclaration.Visibility, "",
                     acc.inputs, <<acc.output>>, variableDeclaration))

\* the loops of FunctionAPI over the children of a ParameterList, from the i-th
RECURSIVE parameterTypes(_, _, _, _)
parameterTypes(params, typeMap, i, ts) ==
  IF i > Len(params) THEN Done(ts)
  ELSE IF params[i].node # "VariableDeclaration"
  THEN Failed("paramList's children expected to be VariableDeclarations")
  ELSE LET declared == declaredType(params[i], typeMap) IN
       IF declared.st # "ok" THEN declared
       ELSE parameterTypes(params, typeMap, i + 1, Append(ts, declared.v))

\* FunctionAPI
FunctionAPI(functionDefinition, typeMap) ==
  LET children == Children(functionDefinition) IN
  IF Len(children) < 1 THEN Panic
  ELSE IF children[1].node # "ParameterList"
  THEN Failed("functionDefinition's first child expected to be ParameterList")
  ELSE IF Len(children) < 2 THEN Panic
  ELSE IF children[2].node # "ParameterList"
  THEN Failed("functionDefinition's second child expected to be ParameterList")
  ELSE LET inputs == parameterTypes(Children(children[1]), typeMap, 1, <<>>) IN
       IF inputs.st # "ok" THEN inputs
       ELSE LET outputs == parameterTypes(Children(children[2]), typeMap, 1, <<>>) IN
            IF outputs.st # "ok" THEN outputs
            ELSE IF \E i \in 1..Len(inputs.v) : inputs.v[i].k = "Reference" THEN Panic
            ELSE Done(Function(functionDefinition.Name, functionDefinition.Visibility,
                               functionDefinition.StateMutability, inputs.v, outputs.v,
                               functionDefinition))

\* the loop of ContractAPI over the children of a contract, from the i-th
RECURSIVE contractAPI(_, _, _, _)
contractAPI(children, typeMap, i, extracted) ==
  IF i > Len(children) THEN Done(extracted)
  ELSE LET child == children[i] IN
       IF child.node = "VariableDeclaration"
       THEN LET function == VariableAPI(child, typeMap) IN
            IF function.st # "ok" THEN function
            ELSE contractAPI(children, typeMap, i + 1, Append(extracted, function.v))
       ELSE IF child.node = "FunctionDefinition"
       THEN IF child.IsConstructor
            THEN contractAPI(children, typeMap, i + 1, extracted)
            ELSE LET function == FunctionAPI(child, typeMap) IN
                 IF function.st # "ok" THEN function
                 ELSE contractAPI(children, typeMap, i + 1, Append(extracted, function.v))
       ELSE contractAPI(children, typeMap, i + 1, extracted)

\* ContractAPI
ContractAPI(contractDefinition, typeMap) ==
  contractAPI(Children(contractDefinition), typeMap, 1, <<>>)

(***************************************************************************)
(* package extract: longestPathPrefix and Project.  A Go map is a          *)
(* function; a range over a map walks its keys in an order the caller of   *)
(* Project does not choose, handed to the operators below as a sequence.   *)
(* A *types.Contract is the id of its ContractDefinition, the key of the   *)
(* contract in contractMap.                                                *)
(***************************************************************************)

longestPathPrefix == [init |-> FALSE, prfx |-> ""]

\* trimToLastSeparator
RECURSIVE trimToLastSeparator(_)
trimToLastSeparator(s) ==
  IF Len(s) > 0 /\ Char(s, Len(s)) # "/"
  THEN trimToLastSeparator(SubSeq(s, 1, Len(s) - 1))
  ELSE s

minInt(a, b) == IF a < b THEN a ELSE b

\* longestCommonPrefix
longestCommonPrefix(a, b) ==
  IF a = "" \/ b = "" THEN ""
  ELSE LET l == minInt(Len(a), Len(b))
           differ == {i \in 1..l : Char(a, i) # Char(b, i)}
       IN IF differ # {}
          THEN SubSeq(a, 1, (CHOOSE i \in differ : \A j \in differ : i <= j) - 1)
          ELSE IF Len(a) < Len(b) THEN a ELSE b

\* Observe, were the common prefix kept whole
ObserveUntrimmed(lpp, path) ==
  IF lpp.init THEN [lpp EXCEPT !.prfx = longestCommonPrefix(path, lpp.prfx)]
  ELSE [init |-> TRUE, prfx |-> trimToLastSeparator(path)]

\* longestPathPrefix.Observe
Observe(lpp, path) ==
  IF lpp.init
  THEN [lpp EXCEPT !.prfx = trimToLastSeparator(longestCommonPrefix(path, lpp.prfx))]
  ELSE [init |-> TRUE, prfx |-> trimToLastSeparator(path)]

\* longestPathPrefix.RemovePrefix panics: path[:l] is out of range, or is not the prefix
RemovePrefixPanics(lpp, path) ==
  \/ Len(lpp.prfx) > Len(path)
  \/ SubSeq(path, 1, Len(lpp.prfx)) # lpp.prfx

\* longestPathPrefix.RemovePrefix
RemovePrefix(lpp, path) == SubSeq(path, Len(lpp.prfx) + 1, Len(path))

\* longestPathPrefix.PrependPrefix
PrependPrefix(lpp, path) ==
  IF Len(path) > 0 /\ Char(path, 1) = "/" THEN lpp.prfx \o SubSeq(path, 2, Len(path))
  ELSE lpp.prfx \o path

\* strings.HasPrefix
HasPrefix(s, prefix) == Len(prefix) <= Len(s) /\ SubSeq(s, 1, Len(prefix)) = prefix

\* hex.DecodeString fails: an odd length, or a byte that is no hexadecimal digit
DecodeStringFails(bs) == Len(bs) % 2 = 1 \/ \E i \in 1..Len(bs) : ~IsHexChar(bs[i])

\* hex.DecodeString
DecodeString(bs) == [i \in 1..(Len(bs) \div 2) |-> 16 * HexVal(bs[2 * i - 1]) + HexVal(bs[2 * i])]

\* for _, path := range combined.SourceList { lpp.Observe(path) }
RECURSIVE observeAll(_, _, _)
observeAll(sourceList, i, lpp) ==
  IF i > Len(sourceList) THEN lpp
  ELSE observeAll(sourceList, i + 1, Observe(lpp, sourceList[i]))

\* the loop of Project over combined.Sources, from the i-th path of the walk
RECURSIVE loadSources(_, _, _, _, _, _)
loadSources(sources, walk, i, lpp, typeMap, sourceUnits) ==
  IF i > Len(walk) THEN Done([typeMap |-> typeMap, sourceUnits |-> sourceUnits])
  ELSE IF RemovePrefixPanics(lpp, walk[i]) THEN Panic
  ELSE LET path == RemovePrefix(lpp, walk[i])
           unserialized == sources[walk[i]]
       IN IF unserialized.node # "SourceUnit" THEN Panic
          ELSE LET ts == ExtractTypes(path, unserialized) IN
               IF ts.st # "ok" THEN Failed(ts.msg)
               ELSE loadSources(sources, walk, i + 1, lpp, ts.m @@ typeMap,
                                (path :> unserialized) @@ sourceUnits)

\* a resolve pass that leaves every type as it found it
resolveNone(typeMap, walk, i) == typeMap

\* for ref, typ := range typeMap { typeMap[ref] = typ.Map(resolve) }, from the
\* i-th key of the walk
RECURSIVE resolveAll(_, _, _)
resolveAll(typeMap, walk, i) ==
  IF i > Len(walk) THEN typeMap
  ELSE resolveAll([typeMap EXCEPT ![walk[i]] = Map(typeMap, typeMap[walk[i]])], walk, i + 1)

\* the loop of Project that keys the functions of a contract by their signature
RECURSIVE apiOf(_, _, _)
apiOf(functions, i, api) ==
  IF i > Len(functions) THEN Done(api)
  ELSE IF \E j \in 1..Len(functions[i].Inputs) : signaturePanics(functions[i].Inputs[j])
  THEN Panic
  ELSE apiOf(functions, i + 1, (FunctionSignature(functions[i]) :> functions[i]) @@ api)

NoFunctions == [sig \in {} |-> None]

\* types.Contract
Contract(file, name, kind, api, definition, binary) ==
  [File |-> file, Name |-> name, Parents |-> <<>>, Types |-> [n \in {} |-> None],
   Kind |-> kind, API |-> api, Definition |-> definition, Binary |-> binary]

\* the loop of Project over the ContractDefinitions of one source unit
RECURSIVE contractsOf(_, _, _, _, _, _, _)
contractsOf(compiled, lpp, typeMap, path, definitions, i, contractMap) ==
  IF i > Len(definitions) THEN Done(contractMap)
  ELSE LET contractDefinition == definitions[i]
           functions == ContractAPI(contractDefinition, typeMap)
       IN IF functions.st # "ok" THEN functions
          ELSE LET api == apiOf(functions.v, 1, NoFunctions)
                   key == PrependPrefix(lpp, path) \o ":" \o contractDefinition.Name
               IN IF api.st # "ok" THEN api
                  ELSE IF key \in DOMAIN compiled /\ DecodeStringFails(compiled[key].Binary)
                  THEN Failed("invalid binary in contract")
                  ELSE IF Len(contractDefinition.LinearizedBaseContracts) = 0 THEN Panic
                  ELSE contractsOf(compiled, lpp, typeMap, path, definitions, i + 1,
                         (contractDefinition.id :>
                            Contract(path, contractDefinition.Name,
                                     contractDefinition.ContractKind, api.v,
                                     contractDefinition,
                                     IF key \in DOMAIN compiled
                                     THEN DecodeString(compiled[key].Binary) ELSE <<>>))
                           @@ contractMap)

NoContracts == [id \in {} |-> None]

\* the loop of Project over sourceUnits, from the i-th path of the walk
RECURSIVE contractsOfAll(_, _, _, _, _, _, _)
contractsOfAll(compiled, lpp, typeMap, sourceUnits, walk, i, contractMap) ==
  IF i > Len(walk) THEN Done(contractMap)
  ELSE LET added == contractsOf(compiled, lpp, typeMap, walk[i],
                                ContractDefinitions(sourceUnits[walk[i]]), 1, contractMap)
       IN IF added.st # "ok" THEN added
          ELSE contractsOfAll(compiled, lpp, typeMap, sourceUnits, walk, i + 1, added.v)

\* the Parents of a contract, were its own id among them
parentsWithSelf(linearized) == linearized

\* contract.Definition.LinearizedBaseContracts[1:]
parentIds(linearized) == Tail(linearized)

\* the loop of Project over typeMap that fills contract.Types, from the i-th key
RECURSIVE typesOf(_, _, _, _, _)
typesOf(contract, typeMap, walk, i, types) ==
  IF i > Len(walk) THEN types
  ELSE LET t == typeMap[walk[i]] IN
       IF t.k = "Named" /\ HasPrefix(t.Name, contract.File \o ":" \o contract.Name)
       THEN typesOf(contract, typeMap, walk, i + 1,
                    (SubSeq(t.Name, LastIndex(t.Name, ".") + 1, Len(t.Name)) :> t) @@ types)
       ELSE typesOf(contract, typeMap, walk, i + 1, types)

NoFiles == [file \in {} |-> None]

\* the last loop of Project, over contractMap, from the i-th id of the walk
RECURSIVE linkAll(_, _, _, _, _, _)
linkAll(contractMap, typeMap, typeWalk, walk, i, files) ==
  IF i > Len(walk) THEN Done([contracts |-> contractMap, Files |-> files])
  ELSE LET id == walk[i]
           contract == contractMap[id]
           parents == parentIds(contract.Definition.LinearizedBaseContracts)
       IN IF \E j \in 1..Len(parents) : parents[j] \notin DOMAIN contractMap
          THEN Failed("missing contract parent definition")
          ELSE LET linked == [contract EXCEPT
                                !.Parents = parents,
                                !.Types = typesOf(contract, typeMap, typeWalk, 1, contract.Types)]
                   contracts == IF contract.File \in DOMAIN files
                                THEN files[contract.File] ELSE [n \in {} |-> None]
               IN linkAll((id :> linked) @@ contractMap, typeMap, typeWalk, walk, i + 1,
                          (contract.File :> ((contract.Name :> id) @@ contracts)) @@ files)

\* the keys of a map with integer keys, walked upwards or downwards
RECURSIVE Upwards(_)
Upwards(S) ==
  IF S = {} THEN <<>>
  ELSE LET m == CHOOSE x \in S : \A y \in S : x <= y IN <<m>> \o Upwards(S \ {m})

Reversed(seq) == [i \in 1..Len(seq) |-> seq[Len(seq) + 1 - i]]

Walk(S, up) == IF up THEN Upwards(S) ELSE Reversed(Upwards(S))

\* every order a set of keys can be walked in
RECURSIVE Orders(_)
Orders(S) ==
  IF S = {} THEN {<<>>}
  ELSE UNION {{<<x>> \o rest : rest \in Orders(S \ {x})} : x \in S}

\* Project, its end: the types.Project of the linked contracts
projectLinked(lpp, sourceUnits, linked) ==
  IF linked.st # "ok" THEN linked
  ELSE [st |-> "ok", Path |-> lpp.prfx, Files |-> linked.v.Files,
        contracts |-> linked.v.contracts, sourceUnits |-> sourceUnits]

\* Project from the loop over contractMap on
projectContracts(lpp, sourceUnits, typeMap, typeWalk, up, contractMap) ==
  IF contractMap.st # "ok" THEN contractMap
  ELSE projectLinked(lpp, sourceUnits,
                     linkAll(contractMap.v, typeMap, typeWalk,
                             Walk(DOMAIN contractMap.v, up), 1, NoFiles))

\* Project from the loop that resolves typeMap on; found is the map before
projectTypes(c, unitWalk, up, lpp, sourceUnits, found) ==
  IF \E r \in Refs(found) : DerefPanics(found, found[r]) THEN Panic
  ELSE IF ResolveLoops(found) THEN [st |-> "fatal"]
  ELSE projectContracts(lpp, sourceUnits, resolveAll(found, Walk(Refs(found), up), 1),
                        Walk(Refs(found), up), up,
                        contractsOfAll(c.Contracts, lpp,
                                       resolveAll(found, Walk(Refs(found), up), 1),
                                       sourceUnits, unitWalk, 1, NoContracts))

\* Project from the loop over combined.Sources on
projectSources(c, unitWalk, up, lpp, loaded) ==
  IF loaded.st # "ok" THEN loaded
  ELSE projectTypes(c, unitWalk, up, lpp, loaded.v.sourceUnits, loaded.v.typeMap)

\* extract.Project: the maps over paths are walked along pathWalk, the ones
\* over ids upwards or downwards
Project(c, pathWalk, up) ==
  LET lpp == observeAll(c.SourceList, 1, longestPathPrefix) IN
  projectSources(c, [i \in 1..Len(pathWalk) |-> RemovePrefix(lpp, pathWalk[i])], up, lpp,
                 loadSources(c.Sources, pathWalk, 1, lpp, NoTypes, [path \in {} |-> None]))

(***************************************************************************)
(* The projects handed to Project: source units as solc writes them (node  *)
(* ids are unique over the compilation, a contract's linearized bases      *)
(* start with its own id), under paths of a few directory layouts.         *)
(***************************************************************************)

\* type names and declarations
Elem(id, t) == ElementaryTypeName(id, t)
User(id, declaration) == UserDefinedTypeName(id, declaration)
Var(id, name, typeName) == VariableDeclaration(id, name, VisibilityInternal, <<typeName>>)
StateVar(id, name, visibility, typeName) ==
  VariableDeclaration(id, name, visibility, <<typeName>>)

\* contract Base {
\*   enum Color { Red, Green, Blue }
\*   struct Pair { uint8 id; bytes data; }
\*   uint256 public total;
\*   uint8 private secret;
\*   mapping(address => Color) public tags;
\*   event Set(Color c);
\*   function Base() public {}
\*   function () public {}
\*   function set(Color c, Pair p) public {}
\* }
BaseContract ==
  ContractDefinition(10, "Base", ContractKindContract, <<10>>,
    <<EnumDefinition(2, "Base.Color",
                     <<EnumValue(11, Red), EnumValue(12, Green), EnumValue(13, Blue)>>),
      StructDefinition(5, "Base.Pair",
                       <<Var(14, "id", Elem(3, uint8)), Var(15, "data", Elem(4, bytes))>>),
      StateVar(16, "total", VisibilityPublic, Elem(6, uint256)),
      StateVar(17, "secret", VisibilityPrivate, Elem(7, uint8)),
      StateVar(18, "tags", VisibilityPublic,
               MappingNode(9, <<Elem(8, El("address")), User(19, 2)>>)),
      EventDefinition(33, "Set", <<ParameterList(34, <<Var(35, "c", User(36, 2))>>)>>),
      FunctionDefinition("Base", TRUE, VisibilityPublic, StateMutabilityNonpayable,
                         <<ParameterList(20, <<>>), ParameterList(21, <<>>), Block(22)>>),
      FunctionDefinition("", FALSE, VisibilityPublic, StateMutabilityNonpayable,
                         <<ParameterList(23, <<>>), ParameterList(24, <<>>), Block(25)>>),
      FunctionDefinition("set", FALSE, VisibilityPublic, StateMutabilityNonpayable,
                         <<ParameterList(26, <<Var(27, "c", User(28, 2)),
                                               Var(29, "p", User(30, 5))>>),
                           ParameterList(31, <<>>), Block(32)>>)>>)

BaseUnit == SourceUnit(1, <<BaseContract>>)

\* contract Token is Base {
\*   Pair[] public pairs;
\*   uint8[2] internal grid;
\*   function transfer(address to, uint256 value) public returns (bool) {}
\*   function peek(mapping(uint256 => uint256) storage m) internal view {}
\* }
\* library Lib {
\*   function paint(Base.Color c, uint8 n) public pure {}
\*   function mix(uint8[2] a, uint256[] b, Base c) public pure {}
\* }
TokenContract ==
  ContractDefinition(41, "Token", ContractKindContract, <<41, 10>>,
    <<StateVar(42, "pairs", VisibilityPublic,
               ArrayTypeName(43, "struct Base.Pair[]", <<User(44, 5)>>)),
      StateVar(45, "grid", VisibilityInternal,
               ArrayTypeName(46, "uint8[2]", <<Elem(47, uint8), Literal(48)>>)),
      FunctionDefinition("transfer", FALSE, VisibilityPublic, StateMutabilityNonpayable,
                         <<ParameterList(49, <<Var(50, "to", Elem(51, El("address"))),
                                               Var(52, "value", Elem(53, uint256))>>),
                           ParameterList(54, <<Var(55, "", Elem(56, El("bool")))>>),
                           Block(57)>>),
      FunctionDefinition("peek", FALSE, VisibilityInternal, StateMutabilityView,
                         <<ParameterList(58, <<Var(59, "m",
                              MappingNode(60, <<Elem(61, uint256), Elem(62, uint256)>>))>>),
                           ParameterList(63, <<>>), Block(64)>>)>>)

LibContract ==
  ContractDefinition(65, "Lib", ContractKindLibrary, <<65>>,
    <<FunctionDefinition("paint", FALSE, VisibilityPublic, StateMutabilityPure,
                         <<ParameterList(66, <<Var(67, "c", User(68, 2)),
                                               Var(69, "n", Elem(70, uint8))>>),
                           ParameterList(71, <<>>), Block(72)>>),
      FunctionDefinition("mix", FALSE, VisibilityPublic, StateMutabilityPure,
                         <<ParameterList(73,
                             <<Var(74, "a", ArrayTypeName(75, "uint8[2]",
                                                          <<Elem(76, uint8), Literal(77)>>)),
                               Var(78, "b", ArrayTypeName(79, "uint256[]",
                                                          <<Elem(85, uint256)>>)),
                               Var(86, "c", User(87, 10))>>),
                           ParameterList(88, <<>>), Block(89)>>)>>)

TokenUnit == SourceUnit(40, <<TokenContract, LibContract>>)

\* contract Child is Token { function ping() external view {} }
ChildContract ==
  ContractDefinition(81, "Child", ContractKindContract, <<81, 41, 10>>,
    <<FunctionDefinition("ping", FALSE, VisibilityExternal, StateMutabilityView,
                         <<ParameterList(82, <<>>), ParameterList(83, <<>>), Block(84)>>)>>)

ChildUnit == SourceUnit(80, <<ChildContract>>)

\* contract Tree { struct Node { Node[] kids; } }
TreeUnit ==
  SourceUnit(90,
    <<ContractDefinition(91, "Tree", ContractKindContract, <<91>>,
        <<StructDefinition(92, "Tree.Node",
            <<Var(93, "kids", ArrayTypeName(94, "struct Tree.Node[]", <<User(95, 92)>>))>>)>>)>>)

\* contract Hook { function () external callback; }: solc's FunctionTypeName is
\* a node UnserializeJSON ignores
HookUnit ==
  SourceUnit(96,
    <<ContractDefinition(97, "Hook", ContractKindContract, <<97>>,
        <<StateVar(98, "callback", VisibilityInternal, IgnoredNode(99))>>)>>)

\* contract Ledger {
\*   mapping(address => uint8[]) public book;
\*   mapping(uint8 => mapping(address => bytes)) public grants;
\* }
LedgerUnit ==
  SourceUnit(120,
    <<ContractDefinition(121, "Ledger", ContractKindContract, <<121>>,
        <<StateVar(122, "book", VisibilityPublic,
                   MappingNode(123, <<Elem(124, El("address")),
                                      ArrayTypeName(125, "uint8[]", <<Elem(126, uint8)>>)>>)),
          StateVar(127, "grants", VisibilityPublic,
                   MappingNode(128, <<Elem(129, uint8),
                                      MappingNode(130, <<Elem(131, El("address")),
                                                         Elem(132, bytes)>>)>>))>>)>>)

\* contract Foo { enum Kind { Red } event Made(Kind k); }
\* contract FooBar { enum Kind { Green, Blue } struct Item { uint8 id; } }
FooUnit ==
  SourceUnit(140,
    <<ContractDefinition(141, "Foo", ContractKindContract, <<141>>,
        <<EnumDefinition(142, "Foo.Kind", <<EnumValue(143, Red)>>),
          EventDefinition(144, "Made", <<ParameterList(145, <<Var(146, "k", User(147, 142))>>)>>)>>),
      ContractDefinition(148, "FooBar", ContractKindContract, <<148>>,
        <<EnumDefinition(149, "FooBar.Kind", <<EnumValue(150, Green), EnumValue(151, Blue)>>),
          StructDefinition(152, "FooBar.Item", <<Var(153, "id", Elem(154, uint8))>>)>>)>>)

\* the paths solc is given
Paths == {"a/x/b.sol", "a/c.sol", "a/xy/d.sol", "a/x/e.sol", "b.sol"}

\* the most source files of a project whose layout varies
MaxSources == 3

\* the source units a project of n files is made of, in the order of its paths
UnitsOf(n) ==
  CASE n = 1 -> <<BaseUnit>>
    [] n = 2 -> <<BaseUnit, TokenUnit>>
    [] OTHER -> <<BaseUnit, TokenUnit, ChildUnit>> \o [i \in 1..(n - 3) |-> SourceUnit(100 + i, <<>>)]

\* the projects of one layout with other source units
UnitMixes ==
  {<<ChildUnit>>, <<TreeUnit>>, <<HookUnit>>, <<TokenUnit>>, <<LedgerUnit>>, <<FooUnit>>,
   <<BaseUnit, ChildUnit>>,
   <<TokenUnit, ChildUnit>>, <<BaseUnit, TreeUnit>>, <<BaseUnit, HookUnit>>,
   <<TokenUnit, BaseUnit, ChildUnit>>}

FixedPaths == <<"a/x/b.sol", "a/c.sol", "a/xy/d.sol">>

\* deployable code solc compiled, by path:name; the last is no hexadecimal
Binaries == {<<>>, <<54, 48, 56, 48>>, <<54, 48, 56>>}

\* ast.Combined
Combined(sourceList, units, binary) ==
  [SourceList |-> sourceList,
   Sources |-> [path \in {sourceList[i] : i \in 1..Len(sourceList)} |->
                  units[CHOOSE i \in 1..Len(sourceList) : sourceList[i] = path]],
   Contracts |-> IF binary = <<>> THEN [key \in {} |-> None]
                 ELSE [key \in {sourceList[1] \o ":Base"} |-> [Binary |-> binary]]]

\* source lists that name a file by its absolute path
RootedLists == {<<"/a/b.sol">>, <<"/a/b.sol", "c.sol">>, <<"/a/b.sol", "/a/c.sol">>}

Combineds ==
  {Combined(sourceList, UnitsOf(Len(sourceList)), binary) :
     sourceList \in RootedLists, binary \in Binaries} \cup
  {Combined(sourceList, UnitsOf(Len(sourceList)), <<>>) :
     sourceList \in UNION {Orders(S) : S \in {T \in SUBSET Paths :
                                                Cardinality(T) \in 1..MaxSources}}}
    \cup {Combined(SubSeq(FixedPaths, 1, Len(units)), units, binary) :
            units \in UnitMixes, binary \in Binaries}

(***************************************************************************)
(* The server: it assembles the project of its configuration once, then    *)
(* serves requests against it.                                             *)
(***************************************************************************)

LinkInit ==
  /\ pc = "configured"
  /\ combined \in Combineds
  /\ project = None
  /\ req = None
  /\ res = None
  /\ eth = <<>>
  /\ typ = None
  /\ arg = None
  /\ enc = None
  /\ buf = None
  /\ dec = None
  /\ unresolved = None
  /\ resolving = None
  /\ AuthUnused

\* project, e := extract.Project(combined)
ProjectStep ==
  /\ pc = "configured"
  /\ \E pathWalk \in Orders(DOMAIN combined.Sources), up \in BOOLEAN :
       project' = Project(combined, pathWalk, up)
  /\ pc' = IF project'.st = "ok" THEN "serving" ELSE "stopped"
  /\ UNCHANGED <<combined, req, res, eth>>
  /\ UNCHANGED abiVars
  /\ UNCHANGED resolveVars
  /\ UNCHANGED authVars

LinkNext == ProjectStep

LinkSpec == LinkInit /\ [][LinkNext]_vars

(***************************************************************************)
(* Byte strings of texts, encoding/hex, and Keccak-256 as                  *)
(* github.com/ethereum/go-ethereum/crypto/sha3 computes it                 *)
(***************************************************************************)

\* the ASCII characters from ' ' to '_', and from 'a' to '~'
Printable == " !\"#$%&'()*+,-./0123456789:;<=>?@ABCDEFGHIJKLMNOPQRSTUVWXYZ[\\]^_"
Lower == "abcdefghijklmnopqrstuvwxyz{|}~"

CodeOf(c) ==
  IF \E i \in 1..Len(Lower) : Char(Lower, i) = c
  THEN 96 + CHOOSE i \in 1..Len(Lower) : Char(Lower, i) = c
  ELSE 31 + CHOOSE i \in 1..Len(Printable) : Char(Printable, i) = c

\* []byte(s) of an ASCII text
ByteSlice(s) == [i \in 1..Len(s) |-> CodeOf(Char(s, i))]

\* hex.EncodeToString: two lower-case digits a byte
EncodeToString(bs) ==
  [j \in 1..(2 * Len(bs)) |->
     DigitChar(IF j % 2 = 1 THEN bs[(j + 1) \div 2] \div 16 ELSE bs[j \div 2] % 16)]

\* ensure0xPrefix, strip0xPrefix
ensure0xPrefix(s) == IF Len(s) < 2 \/ ~Has0xPrefix(s) THEN <<48, 120>> \o s ELSE s
strip0xPrefix(s) == IF Len(s) > 2 /\ Has0xPrefix(s) THEN SubSeq(s, 3, Len(s)) ELSE s

\* the sponge absorbs 136 bytes a block and has 1600 bits of state: lane (x, y)
\* holds the bits 64 * (5 * y + x) + 1 .. 64 * (5 * y + x) + 64, least
\* significant first
keccakRate == 136

\* a sequence with its elements computed
Stored(s) == s \o <<>>

\* the rotation of lane (x, y) is rotationOffsets[x + 1][y + 1]
rotationOffsets ==
  << <<0, 36, 3, 41, 18>>, <<1, 44, 10, 45, 2>>, <<62, 6, 43, 15, 61>>,
     <<28, 55, 25, 21, 56>>, <<27, 20, 39, 8, 14>> >>

\* the bits set in the constant of each round
roundConstants ==
  << {0}, {1, 7, 15}, {1, 3, 7, 15, 63}, {15, 31, 63}, {0, 1, 3, 7, 15}, {0, 31},
     {0, 7, 15, 31, 63}, {0, 3, 15, 63}, {1, 3, 7}, {3, 7}, {0, 3, 15, 31}, {1, 3, 31},
     {0, 1, 3, 7, 15, 31}, {0, 1, 3, 7, 63}, {0, 3, 7, 15, 63}, {0, 1, 15, 63}, {1, 15, 63},
     {7, 63}, {1, 3, 15}, {1, 3, 31, 63}, {0, 7, 15, 31, 63}, {7, 15, 63}, {0, 31},
     {3, 15, 31, 63} >>

LaneBit(a, x, y, z) == a[64 * (5 * y + x) + z + 1]
LaneX(i) == ((i - 1) \div 64) % 5
LaneY(i) == (i - 1) \div 320
LaneZ(i) == (i - 1) % 64

\* the one element of a set
Only(S) == CHOOSE x \in S : TRUE

\* the parities of the columns of a: bit z of column x is parity[64 * x + z + 1]
columnParity(a) ==
  Stored([i \in 1..320 |->
    (LaneBit(a, (i - 1) \div 64, 0, (i - 1) % 64)
       + LaneBit(a, (i - 1) \div 64, 1, (i - 1) % 64)
       + LaneBit(a, (i - 1) \div 64, 2, (i - 1) % 64)
       + LaneBit(a, (i - 1) \div 64, 3, (i - 1) % 64)
       + LaneBit(a, (i - 1) \div 64, 4, (i - 1) % 64)) % 2])

theta(a, parity) ==
  Stored([i \in 1..1600 |->
    (a[i] + parity[64 * ((LaneX(i) + 4) % 5) + LaneZ(i) + 1]
          + parity[64 * ((LaneX(i) + 1) % 5) + ((LaneZ(i) + 63) % 64) + 1]) % 2])

rhoPi(a) ==
  Stored([i \in 1..1600 |->
    LaneBit(a, (LaneX(i) + 3 * LaneY(i)) % 5, LaneX(i),
            (LaneZ(i) + 64 - rotationOffsets[((LaneX(i) + 3 * LaneY(i)) % 5) + 1][LaneX(i) + 1])
              % 64)])

chiIota(a, round) ==
  Stored([i \in 1..1600 |->
    (a[i] + (1 - LaneBit(a, (LaneX(i) + 1) % 5, LaneY(i), LaneZ(i)))
              * LaneBit(a, (LaneX(i) + 2) % 5, LaneY(i), LaneZ(i))
          + (IF i <= 64 /\ (i - 1) \in roundConstants[round] THEN 1 ELSE 0)) % 2])

\* one round of Keccak-f[1600]: theta, rho and pi, chi and iota, the state of
\* each step computed once
keccakRound(a, round) ==
  Only({chiIota(moved, round) :
          moved \in {rhoPi(mixed) :
                       mixed \in {theta(a, parity) : parity \in {columnParity(a)}}}})

RECURSIVE keccakF1600(_, _)
keccakF1600(a, round) ==
  IF round > Len(roundConstants) THEN a
  ELSE Only({keccakF1600(b, round + 1) : b \in {keccakRound(a, round)}})

\* sha3.NewKeccak256(), Write(data), Sum(nil) for data shorter than one block:
\* the padding is the byte 0x01 after the data and 0x80 on the last byte
NewKeccak256Sum(data) ==
  LET block == [i \in 1..keccakRate |->
                 (IF i <= Len(data) THEN data[i] ELSE IF i = Len(data) + 1 THEN 1 ELSE 0)
                   + (IF i = keccakRate THEN 128 ELSE 0)]
      absorbed == Stored([i \in 1..1600 |->
                    IF i <= 8 * keccakRate
                    THEN (block[(i - 1) \div 8 + 1] \div (2 ^ ((i - 1) % 8))) % 2 ELSE 0])
  IN Only({Stored([i \in 1..32 |->
             out[8 * i - 7] + 2 * out[8 * i - 6] + 4 * out[8 * i - 5] + 8 * out[8 * i - 4]
               + 16 * out[8 * i - 3] + 32 * out[8 * i - 2] + 64 * out[8 * i - 1]
               + 128 * out[8 * i]]) :
           out \in {keccakF1600(first, 1) : first \in {absorbed}}})

\* the signatures of the functions the requests ask for
Signatures ==
  <<"transfer(address,uint256)", "set(uint8,(uint8,bytes))", "total()",
    "peek(mapping(uint256 => uint256))">>

\* the signatures asked for; the last is of no function
SignaturesAsked == {Signatures[i] : i \in 1..Len(Signatures)} \cup {"nope()"}

\* the digests of the signatures asked for, computed once
Digests == Stored([i \in 1..Len(Signatures) |-> NewKeccak256Sum(ByteSlice(Signatures[i]))])

\* keccak of an ASCII text
keccak(input) ==
  IF \E i \in 1..Len(Signatures) : Signatures[i] = input
  THEN Digests[CHOOSE i \in 1..Len(Signatures) : Signatures[i] = input]
  ELSE NewKeccak256Sum(ByteSlice(input))

(***************************************************************************)
(* The RPC methods of RpcHandler and the jsonEncoder.  h is the handler's  *)
(* project.  A method returns [st |-> "ok", v] with what it wrote to *res, *)
(* an error ([st |-> "err", ...]) with *res untouched, or panics.          *)
(***************************************************************************)

\* jsonEncoder.encodeType panics ("unexpected type"): t holds a Reference
encodeTypePanics(t) == RefsIn(t) # {}

\* jsonEncoder.encodeType: the JSON object written for a type
RECURSIVE encodeType(_)
encodeType(t) ==
  CASE t.k = "Event" ->
         [kind |-> "event", name |-> t.Name,
          args |-> [i \in 1..Len(t.Args) |-> encodeType(t.Args[i])]]
    [] t.k = "Tuple" ->
         [kind |-> "tuple", types |-> [i \in 1..Len(t.ts) |-> encodeType(t.ts[i])]]
    [] t.k = "Elementary" -> [kind |-> "elementary", name |-> ElementaryText(t)]
    [] t.k = "Struct" ->
         [kind |-> "struct", keys |-> t.Keys,
          types |-> [i \in 1..Len(t.Types) |-> encodeType(t.Types[i])]]
    [] t.k = "Array" -> [kind |-> "array", length |-> t.Length, type |-> encodeType(t.Type)]
    [] t.k = "Mapping" ->
         [kind |-> "mapping", key |-> encodeType(t.Key), value |-> encodeType(t.Value)]
    [] t.k = "Enum" -> [kind |-> "enum", values |-> t.cases]
    [] t.k = "Named" -> [kind |-> "named", name |-> t.Name, type |-> encodeType(t.Type)]
    [] t.k = "ContractAddress" -> [kind |-> "contractAddress", name |-> t.id]
    [] t.k = "InterfaceAddress" -> [kind |-> "interfaceAddress", name |-> t.id]
    [] t.k = "LibraryAddress" -> [kind |-> "libraryAddress", name |-> t.id]

\* jsonEncoder.EncodeType
EncodeType(t) == [kind |-> "type", definition |-> encodeType(t)]

\* jsonEncoder.EncodeFunction; the natSpec of the function is left out
EncodeFunction(function) ==
  IF \/ \E i \in 1..Len(function.Inputs) : encodeTypePanics(function.Inputs[i])
     \/ \E i \in 1..Len(function.Outputs) : encodeTypePanics(function.Outputs[i])
  THEN Panic
  ELSE LET sig == FunctionSignature(function) IN
       Done([kind |-> "function",
             signature |-> sig,
             fingerprint |-> EncodeToString(SubSeq(keccak(sig), 1, 4)),
             name |-> function.Name,
             visibility |-> function.Visibility,
             inputs |-> [i \in 1..Len(function.Inputs) |-> EncodeType(function.Inputs[i])],
             outputs |-> [i \in 1..Len(function.Outputs) |-> EncodeType(function.Outputs[i])]])

\* RpcHandler.functionBySignature: the contract, then its parents in their
\* order; the keys of an API are the signatures of its functions, so that at
\* most one function of a contract matches, whatever the order of the walk
functionBySignature(h, file, contract, signature) ==
  IF file \notin DOMAIN h.Files THEN Failed("file not found")
  ELSE IF contract \notin DOMAIN h.Files[file] THEN Failed("contract not found")
  ELSE LET first == h.contracts[h.Files[file][contract]]
           chain == <<first>> \o [i \in 1..Len(first.Parents) |-> h.contracts[first.Parents[i]]]
           matching(c) == {key \in DOMAIN c.API : FunctionSignature(c.API[key]) = signature}
       IN IF \A i \in 1..Len(chain) : matching(chain[i]) = {}
          THEN Failed("function signature not found")
          ELSE LET i == CHOOSE i \in 1..Len(chain) :
                          /\ matching(chain[i]) # {}
                          /\ \A j \in 1..(i - 1) : matching(chain[j]) = {}
               IN Done(chain[i].API[CHOOSE key \in matching(chain[i]) : TRUE])

\* RpcHandler.GetFunction
GetFunction(h, r) ==
  LET function == functionBySignature(h, r.File, r.Contract, r.Signature) IN
  IF function.st # "ok" THEN function ELSE EncodeFunction(function.v)

\* the encoded arguments alone, without a fingerprint before them
encodedArguments(function, calldata) ==
  IF calldata.st # "ok" THEN calldata ELSE Done(calldata.code)

\* EncodeFunctionCall once abi.Encode has returned calldata or an error
encodedFunctionCall(function, calldata) ==
  IF calldata.st # "ok" THEN calldata
  ELSE Done(SubSeq(keccak(FunctionSignature(function)), 1, 4) \o calldata.code)

\* EncodeFunctionCall once functionBySignature has returned
encodeFunctionCall(function, arguments) ==
  IF function.st # "ok" THEN function
  ELSE encodedFunctionCall(function.v, Encode(Tuple(function.v.Inputs), arguments))

\* RpcHandler.EncodeFunctionCall
EncodeFunctionCall(h, r) ==
  encodeFunctionCall(functionBySignature(h, r.File, r.Contract, r.Signature), r.Arguments)

FunctionDispatchModeDefault == "default"
FunctionDispatchModeTransactionOnly == "transactionOnly"
FunctionDispatchModeCallOnly == "callOnly"

defaultGasLimit == 90000

\* what a method returns with the calls it made on EthClient
Out(result, calls) == [res |-> result, eth |-> calls]

\* the address of the key the authenticator hands out, and common.HexToAddress
KeyAddress == [Address |-> "key"]
HexToAddress(s) == [HexToAddress |-> s]

\* (*big.Int).SetString(s, 16) of hexadecimal digits
SetString16(ds) == BigInt(FALSE, FromHex([i \in 1..Len(ds) |-> HexVal(ds[i])]))

\* strconv.FormatUint(n, 16)
FormatUint16(n) == Text(BigInt(FALSE, NatBytes(n)), 16)

\* DispatchFunctionCall once abi.Decode has returned: the result, with the
\* receipt if there was a transaction
dispatched(decoded, receipt, calls) ==
  IF decoded.st # "ok" THEN Out(decoded, calls)
  ELSE Out(Done([Result |-> decoded.val, Receipt |-> receipt]), calls)

\* DispatchFunctionCall from auth.ExchangeToken on.  node is what the
\* authenticator and the Ethereum node answer: node.fails names the call
\* that returns an error (every error ends the method, so that no call after
\* it is made), node.call is the answer to eth_call, node.receipt the
\* receipt once it is no longer pending, node.inPlace whether
\* hex.DecodeString decodes within the bytes of its argument, which then
\* stay behind the decoded bytes, or into a slice of their own.
dispatch(r, mode, node, function, calldata, gasLimit, gasPrice, value, asked) ==
  IF node.fails = "ExchangeToken" THEN Out(Failed("ExchangeToken"), asked)
  ELSE
  LET target == HexToAddress(r.Target)
      call == [From |-> KeyAddress, To |-> target,
               Gas |-> ensure0xPrefix(FormatUint16(gasLimit)),
               GasPrice |-> ensure0xPrefix(Text(gasPrice, 16)),
               Value |-> ensure0xPrefix(Text(value, 16)),
               Data |-> ensure0xPrefix(EncodeToString(calldata))]
      text == strip0xPrefix(node.call)
      code == Code(DecodeString(text),
                   IF node.inPlace THEN SubSeq(text, Len(text) \div 2 + 1, Len(text)) ELSE <<>>)
  IN
  IF \/ mode = FunctionDispatchModeCallOnly
     \/ /\ mode = FunctionDispatchModeDefault
        /\ function.StateMutability \in {StateMutabilityPure, StateMutabilityView}
  THEN LET called == Append(asked, [method |-> "eth_call", call |-> call,
                                    block |-> ByteSlice("latest")])
       IN IF node.fails = "eth_call" THEN Out(Failed("eth_call"), called)
          ELSE IF node.call = <<48, 120>> /\ Len(function.Outputs) > 0
          THEN Out(Failed("function call reverted"), called)
          ELSE IF Len(function.Outputs) = 0
          THEN Out(Done([Result |-> None, Receipt |-> None]), called)
          ELSE IF DecodeStringFails(text) THEN Out(Failed("encoding/hex"), called)
          ELSE dispatched(Decode(Tuple(function.Outputs), code), None, called)
  ELSE
  LET counted == Append(asked, [method |-> "eth_getTransactionCount",
                                address |-> KeyAddress, block |-> ByteSlice("pending")])
      transaction == [nonce |-> node.nonce, to |-> target, amount |-> value,
                      gasLimit |-> gasLimit, gasPrice |-> gasPrice, data |-> calldata,
                      signedBy |-> KeyAddress]
      sent == Append(counted, [method |-> "eth_sendRawTransaction",
                               transaction |-> transaction])
      polled == Append(sent, [method |-> "eth_getTransactionReceipt",
                              transaction |-> transaction])
      prevBlockNr == node.receipt.BlockNumber - 1
      called == Append(polled,
                  [method |-> "eth_call", call |-> call,
                   block |-> ensure0xPrefix(
                               Text(BigInt(prevBlockNr < 0,
                                           NatBytes(IF prevBlockNr < 0 THEN -prevBlockNr
                                                    ELSE prevBlockNr)), 16))])
  IN
  IF node.fails = "eth_getTransactionCount" THEN Out(Failed("failed to get nonce"), counted)
  ELSE IF node.fails = "SignTx" THEN Out(Failed("error signing transaction"), counted)
  ELSE IF node.fails = "eth_sendRawTransaction"
  THEN Out(Failed("eth_sendRawTransaction"), sent)
  ELSE IF node.fails = "eth_getTransactionReceipt"
  THEN Out(Failed("eth_getTransactionReceipt"), polled)
  ELSE IF node.receipt.Status # "0x1" THEN Out(Failed("transaction reverted"), polled)
  ELSE IF mode = FunctionDispatchModeTransactionOnly
  THEN Out(Done([Result |-> None, Receipt |-> node.receipt]), polled)
  ELSE IF node.fails = "eth_call" THEN Out(Failed("eth_call"), called)
  ELSE IF (node.call = <<48, 120>> /\ Len(function.Outputs) > 0) \/ Len(function.Outputs) = 0
  THEN Out(Done([Result |-> None, Receipt |-> node.receipt]), called)
  ELSE IF DecodeStringFails(text) THEN Out(Failed("encoding/hex"), called)
  ELSE dispatched(Decode(Tuple(function.Outputs), code), node.receipt, called)

\* DispatchFunctionCall once abi.Encode has returned calldata or an error
dispatchEncoded(r, mode, node, gasLimit, gasPrice, value, asked, function, calldata) ==
  IF calldata.st = "panic" THEN Out(Panic, asked)
  ELSE IF calldata.st # "ok"
  THEN Out([st |-> "err", msg |-> "argument encoding error", cause |-> calldata], asked)
  ELSE dispatch(r, mode, node, function,
                SubSeq(keccak(FunctionSignature(function)), 1, 4) \o calldata.code,
                gasLimit, gasPrice, value, asked)

\* DispatchFunctionCall once functionBySignature has returned
dispatchFunction(r, mode, node, gasLimit, gasPrice, value, asked, function) ==
  IF function.st # "ok" THEN Out(function, asked)
  ELSE dispatchEncoded(r, mode, node, gasLimit, gasPrice, value, asked, function.v,
                       Encode(Tuple(function.v.Inputs), r.Arguments))

\* RpcHandler.DispatchFunctionCall
DispatchFunctionCall(h, r, node) ==
  LET amount == IF r.Value = <<>> THEN <<48>> ELSE r.Value
      mode == IF r.Mode = "" THEN FunctionDispatchModeDefault ELSE r.Mode
      asked == IF r.GasPrice = <<>> THEN <<[method |-> "eth_gasPrice"]>> ELSE <<>>
  IN
  IF mode \notin {FunctionDispatchModeDefault, FunctionDispatchModeTransactionOnly,
                  FunctionDispatchModeCallOnly}
  THEN Out(Failed("invalid mode, available: default, transactionOnly, callOnly"), <<>>)
  ELSE IF r.Target = <<>> THEN Out(Failed("missing transaction target in request"), <<>>)
  ELSE IF r.GasPrice = <<>> /\ node.fails = "eth_gasPrice"
  THEN Out(Failed("eth_gasPrice"), asked)
  ELSE IF r.GasPrice # <<>> /\ ~SetStringDec(r.GasPrice).ok
  THEN Out(Failed("invalid gasPrice"), asked)
  ELSE IF r.GasLimit # <<>> /\ ~AllDec(r.GasLimit) THEN Out(Failed("invalid gasLimit"), asked)
  ELSE IF ~SetStringDec(amount).ok THEN Out(Failed("invalid value"), asked)
  ELSE
  dispatchFunction(r, mode, node,
                   IF r.GasLimit = <<>> THEN defaultGasLimit ELSE SmallDec(r.GasLimit),
                   IF r.GasPrice = <<>> THEN SetString16(strip0xPrefix(node.gasPrice))
                   ELSE SetStringDec(r.GasPrice).val,
                   SetStringDec(amount).val, asked,
                   functionBySignature(h, r.File, r.Contract, r.Signature))

(***************************************************************************)
(* The requests: what the clients ask of the methods, and what the         *)
(* authenticator and the Ethereum node answer                              *)
(***************************************************************************)

\* the projects served: one to three source files below "a/"
ServedCombineds ==
  {Combined(SubSeq(FixedPaths, 1, n), UnitsOf(n), <<>>) : n \in 1..Len(FixedPaths)}

\* the contracts asked for: those of the project, one of an unknown file and
\* an unknown one of each file
ContractsAsked(h) ==
  UNION {{<<file, contract>> : contract \in DOMAIN h.Files[file] \cup {"Nope"}} :
         file \in DOMAIN h.Files}
    \cup {<<"z.sol", "Base">>}

\* the argument lists: none, (address, uint256) twice, (Color, Pair), an
\* address below zero, no list at all, and null
ArgumentsAsked ==
  {JArr(<<>>),
   JArr(<<HexOf(<<1, 2>>), JNum(<<53>>)>>),
   JArr(<<JNum(<<49>>), JNum(<<50>>)>>),
   JArr(<<JStr(Green), JObj([key \in {"id", "data"} |->
                              IF key = "id" THEN JNum(<<49>>) ELSE StrA(1)])>>),
   JArr(<<JNum(<<45, 49>>), JNum(<<50>>)>>),
   StrA(1),
   JNull}

\* EncodeFunctionCallRequest
CallRequests(h) ==
  {[File |-> c[1], Contract |-> c[2], Signature |-> signature, Arguments |-> arguments] :
     c \in ContractsAsked(h), signature \in SignaturesAsked, arguments \in ArgumentsAsked}

\* GetFunctionRequest
FunctionRequests(h) ==
  {[File |-> c[1], Contract |-> c[2], Signature |-> signature] :
     c \in ContractsAsked(h), signature \in SignaturesAsked}

\* the fields DispatchFunctionCallRequest adds: all but the target left to
\* their defaults, then one of them set, to a legal and to an illegal text
DispatchDefaults ==
  [Target |-> <<48, 120, 49>>, Value |-> <<>>, GasPrice |-> <<>>, GasLimit |-> <<>>, Mode |-> ""]

DispatchOptions ==
  {DispatchDefaults,
   [DispatchDefaults EXCEPT !.Target = <<>>],
   [DispatchDefaults EXCEPT !.Value = <<55>>],
   [DispatchDefaults EXCEPT !.Value = <<120>>],
   [DispatchDefaults EXCEPT !.GasPrice = <<51>>],
   [DispatchDefaults EXCEPT !.GasPrice = <<120>>],
   [DispatchDefaults EXCEPT !.GasLimit = <<57, 57>>],
   [DispatchDefaults EXCEPT !.GasLimit = <<120>>],
   [DispatchDefaults EXCEPT !.Mode = FunctionDispatchModeDefault],
   [DispatchDefaults EXCEPT !.Mode = FunctionDispatchModeTransactionOnly],
   [DispatchDefaults EXCEPT !.Mode = FunctionDispatchModeCallOnly],
   [DispatchDefaults EXCEPT !.Mode = "always"]}

\* DispatchFunctionCallRequest: every call with the defaults, and the calls of
\* transfer with every option
DispatchRequests(h) ==
  UNION {{[File |-> r.File, Contract |-> r.Contract, Signature |-> r.Signature,
           Arguments |-> r.Arguments, Target |-> o.Target, Value |-> o.Value,
           GasPrice |-> o.GasPrice, GasLimit |-> o.GasLimit, Mode |-> o.Mode] :
            o \in IF r.Signature = "transfer(address,uint256)" THEN DispatchOptions
                  ELSE {DispatchDefaults}} :
         r \in CallRequests(h)}

\* the answers to eth_call: nothing, the word 1, half a word, no hexadecimal
CallAnswers ==
  {<<48, 120>>, <<48, 120>> \o Rep(63, 48) \o <<49>>, <<48, 120>> \o Rep(32, 48),
   <<48, 120, 122, 122>>}

\* the node that answers every call, the transaction mined in block 16
NodeDefaults ==
  [fails |-> "none", gasPrice |-> <<48, 120, 51, 98>>, nonce |-> 5,
   call |-> <<48, 120>> \o Rep(63, 48) \o <<49>>,
   receipt |-> [Status |-> "0x1", BlockNumber |-> 16], inPlace |-> FALSE]

\* the nodes: one call fails, or the transaction is reverted, or eth_call is
\* answered in another way
Nodes ==
  {[NodeDefaults EXCEPT !.fails = f] :
     f \in {"none", "eth_gasPrice", "ExchangeToken", "eth_call", "eth_getTransactionCount",
            "SignTx", "eth_sendRawTransaction", "eth_getTransactionReceipt"}}
    \cup {[NodeDefaults EXCEPT !.receipt = [Status |-> "0x0", BlockNumber |-> 16]]}
    \cup {[NodeDefaults EXCEPT !.call = answer, !.inPlace = inPlace] :
            answer \in CallAnswers, inPlace \in BOOLEAN}

(***************************************************************************)
(* The server with its methods: one request is served at a time, which     *)
(* loses nothing, as no method writes to the project.                      *)
(***************************************************************************)

ServerInit ==
  /\ pc = "configured"
  /\ combined \in ServedCombineds
  /\ project = None
  /\ req = None
  /\ res = None
  /\ eth = <<>>
  /\ typ = None
  /\ arg = None
  /\ enc = None
  /\ buf = None
  /\ dec = None
  /\ unresolved = None
  /\ resolving = None
  /\ AuthUnused

\* v1.GetFunction
GetFunctionStep ==
  /\ pc = "serving"
  /\ \E r \in FunctionRequests(project) :
       /\ req' = [method |-> "GetFunction", params |-> r]
       /\ res' = GetFunction(project, r)
  /\ eth' = <<>>
  /\ pc' = "answering"
  /\ UNCHANGED <<combined, project>>
  /\ UNCHANGED abiVars
  /\ UNCHANGED resolveVars
  /\ UNCHANGED authVars

\* v1.EncodeFunctionCall
EncodeFunctionCallStep ==
  /\ pc = "serving"
  /\ \E r \in CallRequests(project) :
       /\ req' = [method |-> "EncodeFunctionCall", params |-> r]
       /\ res' = EncodeFunctionCall(project, r)
  /\ eth' = <<>>
  /\ pc' = "answering"
  /\ UNCHANGED <<combined, project>>
  /\ UNCHANGED abiVars
  /\ UNCHANGED resolveVars
  /\ UNCHANGED authVars

\* v1.DispatchFunctionCall
DispatchFunctionCallStep ==
  /\ pc = "serving"
  /\ \E r \in DispatchRequests(project), node \in Nodes :
       LET out == DispatchFunctionCall(project, r, node) IN
       /\ req' = [method |-> "DispatchFunctionCall", params |-> r]
       /\ res' = out.res
       /\ eth' = out.eth
  /\ pc' = "answering"
  /\ UNCHANGED <<combined, project>>
  /\ UNCHANGED abiVars
  /\ UNCHANGED resolveVars
  /\ UNCHANGED authVars

\* ServeCodec writes the response, and the server waits for the next request
Respond ==
  /\ pc = "answering"
  /\ pc' = "serving"
  /\ req' = None
  /\ res' = None
  /\ eth' = <<>>
  /\ UNCHANGED <<combined, project>>
  /\ UNCHANGED abiVars
  /\ UNCHANGED resolveVars
  /\ UNCHANGED authVars

ServerNext ==
  ProjectStep \/ GetFunctionStep \/ EncodeFunctionCallStep \/ DispatchFunctionCallStep
    \/ Respond

ServerSpec == ServerInit /\ [][ServerNext]_vars

(***************************************************************************)
(* The resolve pass of Project, call by call.  Every call of Type.Map and  *)
(* of Map.Deref takes a frame of the goroutine's stack; the call of the    *)
(* closure resolve that Reference.Map and the Map of a type without        *)
(* members make is part of their frame.  A frame keeps what its callees    *)
(* have returned so far.                                                   *)
(***************************************************************************)

\* the deepest stack followed: beyond it the stack of the goroutine overflows
MaxDepth == 16

MapFrame(t) == [call |-> "Map", t |-> t, got |-> <<>>]
DerefFrame(ref) == [call |-> "Deref", ref |-> ref, got |-> <<>>]

\* the variants of Type.Map that rebuild the type around its mapped members
Rebuilt(t, ms) ==
  CASE t.k = "Event" -> Event(t.Name, ms)
    [] t.k = "Tuple" -> Tuple(ms)
    [] t.k = "Struct" -> Struct(t.Keys, ms)
    [] t.k = "Array" -> Array(t.Length, ms[1])
    [] t.k = "Mapping" -> Mapping(ms[1], ms[2])
    [] t.k = "Named" -> Named(t.Name, ms[1])
    [] OTHER -> t

\* Deref finds no type under its key
derefPanics(typeMap, frame) == frame.call = "Deref" /\ frame.ref \notin DOMAIN typeMap

\* the frame has all it needs to return: Deref a type that is no Reference or
\* what its own call returned, resolve the mapped type Deref led to, a Map
\* its mapped members
returns(typeMap, frame) ==
  IF frame.call = "Deref"
  THEN frame.ref \in DOMAIN typeMap
         /\ (typeMap[frame.ref].k # "Reference" \/ Len(frame.got) = 1)
  ELSE IF frame.t.k = "Reference" THEN Len(frame.got) = 2
  ELSE Len(frame.got) = Len(Members(frame.t))

\* a resolve that returns what Deref led to as it is
returnedUnmapped(typeMap, frame) ==
  IF frame.call = "Deref"
  THEN IF frame.got # <<>> THEN frame.got[1] ELSE typeMap[frame.ref]
  ELSE IF frame.t.k = "Reference" THEN frame.got[1]
  ELSE Rebuilt(frame.t, frame.got)

\* what the frame returns
returned(typeMap, frame) ==
  IF frame.call = "Deref"
  THEN IF frame.got # <<>> THEN frame.got[1] ELSE typeMap[frame.ref]
  ELSE IF frame.t.k = "Reference" THEN frame.got[2]
  ELSE Rebuilt(frame.t, frame.got)

\* the call the frame makes next
called(typeMap, frame) ==
  IF frame.call = "Deref" THEN DerefFrame(typeMap[frame.ref].id)
  ELSE IF frame.t.k = "Reference"
  THEN IF frame.got = <<>> THEN DerefFrame(frame.t.id) ELSE MapFrame(frame.got[1])
  ELSE MapFrame(Members(frame.t)[Len(frame.got) + 1])

Top(frames) == frames[Len(frames)]

\* type-id maps built by hand: without References to follow twice, with
\* chains, with types that hold themselves, with ids that are no key
HandMaps ==
  {(1 :> uint8) @@ (2 :> Reference(1)),
   (1 :> Reference(2)) @@ (2 :> Reference(3)) @@ (3 :> bytes),
   (1 :> Named("a.sol:C.Pair",
               Struct(<<"id", "data">>,
                      <<Reference(2), Array(DynamicArrayLength, Reference(3))>>)))
     @@ (2 :> uint8) @@ (3 :> Reference(2)) @@ (4 :> Mapping(Reference(3), Reference(1)))
     @@ (5 :> Event("Set", <<Reference(1)>>)) @@ (6 :> Tuple(<<Reference(4), Color>>)),
   (1 :> Named("a.sol:Tree.Node",
               Struct(<<"kids">>, <<Array(DynamicArrayLength, Reference(2))>>)))
     @@ (2 :> Reference(1)),
   (1 :> Named("a.sol:List.Cell",
               Struct(<<"next">>, <<Mapping(uint8, Reference(2))>>)))
     @@ (2 :> Reference(1)),
   (1 :> Reference(1)),
   (1 :> Reference(2)) @@ (2 :> Reference(1)),
   (1 :> uint8) @@ (2 :> Reference(1))
     @@ (3 :> Struct(<<"id", "kids">>, <<Reference(2), Array(2, Reference(4))>>))
     @@ (4 :> Reference(3)),
   (1 :> Reference(9)),
   (1 :> Struct(<<"id">>, <<Reference(9)>>)) @@ (2 :> uint8),
   (1 :> Struct(<<"id", "kids">>, <<Reference(9), Array(DynamicArrayLength, Reference(1))>>)),
   (1 :> Struct(<<"kids", "id">>, <<Array(DynamicArrayLength, Reference(1)), Reference(9)>>))}

\* the type-id maps Project extracts from the source units
ExtractedMaps ==
  {loaded.v.typeMap :
     loaded \in {l \in {loadSources(c.Sources, c.SourceList, 1,
                                    observeAll(c.SourceList, 1, longestPathPrefix),
                                    NoTypes, [path \in {} |-> None]) :
                          c \in {Combined(SubSeq(FixedPaths, 1, Len(units)), units, <<>>) :
                                   units \in UnitMixes}} :
                   l.st = "ok"}}

TypeMaps == HandMaps \cup ExtractedMaps

\* the orders the range over the map may take: all of them for a small map
RangeWalks(typeMap) ==
  IF Cardinality(DOMAIN typeMap) <= 3 THEN Orders(DOMAIN typeMap)
  ELSE {Walk(DOMAIN typeMap, up) : up \in BOOLEAN}

ResolveInit ==
  /\ pc = "resolving"
  /\ unresolved \in TypeMaps
  /\ resolving \in {[typeMap |-> unresolved, walk |-> walk, frames |-> <<>>] :
                      walk \in RangeWalks(unresolved)}
  /\ typ = None
  /\ arg = None
  /\ enc = None
  /\ buf = None
  /\ dec = None
  /\ combined = None
  /\ project = None
  /\ req = None
  /\ res = None
  /\ eth = <<>>
  /\ AuthUnused

\* for ref, typ := range typeMap { ... typ.Map(resolve) ... }: the next key
RangeStep ==
  /\ pc = "resolving"
  /\ resolving.frames = <<>>
  /\ resolving.walk # <<>>
  /\ resolving' = [resolving EXCEPT
                     !.frames = <<MapFrame(resolving.typeMap[Head(resolving.walk)])>>]
  /\ UNCHANGED <<pc, unresolved>>
  /\ UNCHANGED abiVars
  /\ UNCHANGED linkVars
  /\ UNCHANGED authVars

\* the frame on top makes its next call
CallStep ==
  /\ pc = "resolving"
  /\ resolving.frames # <<>>
  /\ ~derefPanics(resolving.typeMap, Top(resolving.frames))
  /\ ~returns(resolving.typeMap, Top(resolving.frames))
  /\ Len(resolving.frames) < MaxDepth
  /\ resolving' = [resolving EXCEPT
                     !.frames = Append(@, called(resolving.typeMap, Top(resolving.frames)))]
  /\ UNCHANGED <<pc, unresolved>>
  /\ UNCHANGED abiVars
  /\ UNCHANGED linkVars
  /\ UNCHANGED authVars

\* the call does not fit on the stack: the runtime ends the process
StackOverflow ==
  /\ pc = "resolving"
  /\ resolving.frames # <<>>
  /\ ~derefPanics(resolving.typeMap, Top(resolving.frames))
  /\ ~returns(resolving.typeMap, Top(resolving.frames))
  /\ Len(resolving.frames) >= MaxDepth
  /\ pc' = "fatal"
  /\ UNCHANGED <<unresolved, resolving>>
  /\ UNCHANGED abiVars
  /\ UNCHANGED linkVars
  /\ UNCHANGED authVars

\* panic("missing typemap key")
MissingKey ==
  /\ pc = "resolving"
  /\ resolving.frames # <<>>
  /\ derefPanics(resolving.typeMap, Top(resolving.frames))
  /\ pc' = "panic"
  /\ UNCHANGED <<unresolved, resolving>>
  /\ UNCHANGED abiVars
  /\ UNCHANGED linkVars
  /\ UNCHANGED authVars

\* the frame on top returns to its caller; the outermost Map returns to the
\* range, which assigns typeMap[ref]
ReturnStep ==
  /\ pc = "resolving"
  /\ resolving.frames # <<>>
  /\ returns(resolving.typeMap, Top(resolving.frames))
  /\ LET frames == resolving.frames
         n == Len(frames)
         v == returned(resolving.typeMap, Top(frames))
     IN resolving' =
          IF n = 1
          THEN [typeMap |-> [resolving.typeMap EXCEPT ![Head(resolving.walk)] = v],
                walk |-> Tail(resolving.walk),
                frames |-> <<>>]
          ELSE [resolving EXCEPT
                  !.frames = SubSeq(frames, 1, n - 2)
                               \o <<[frames[n - 1] EXCEPT !.got = Append(@, v)]>>]
  /\ UNCHANGED <<pc, unresolved>>
  /\ UNCHANGED abiVars
  /\ UNCHANGED linkVars
  /\ UNCHANGED authVars

\* the range has visited every key
RangeEnds ==
  /\ pc = "resolving"
  /\ resolving.frames = <<>>
  /\ resolving.walk = <<>>
  /\ pc' = "resolved"
  /\ UNCHANGED <<unresolved, resolving>>
  /\ UNCHANGED abiVars
  /\ UNCHANGED linkVars
  /\ UNCHANGED authVars

ResolveNext == RangeStep \/ CallStep \/ StackOverflow \/ MissingKey \/ ReturnStep \/ RangeEnds

\* a goroutine that can take a step takes it
ResolveSpec == ResolveInit /\ [][ResolveNext]_vars /\ WF_vars(ResolveNext)

(***************************************************************************)
(* The properties of the assembled project and of the requests served      *)
(***************************************************************************)

Assembled == pc = "serving" /\ project.st = "ok"

\* the strings that are empty or end with '/' and are a prefix of every path
SharedDirectories(paths) ==
  {s \in UNION {{SubSeq(path, 1, n) : n \in 0..Len(path)} : path \in paths} :
     /\ s = "" \/ Char(s, Len(s)) = "/"
     /\ \A path \in paths : HasPrefix(path, s)}

ObservedPaths == {combined.SourceList[i] : i \in 1..Len(combined.SourceList)}

\* C19: after the paths of sourceList are observed, in whatever order they
\* are listed, the root path is the longest string that is empty or ends with
\* '/' and is a prefix of every one of them; an assembled project has that root
\* path, and its source units are keyed by their paths without it.
C19_RootPath ==
  pc \in {"configured", "serving", "stopped"} =>
    LET root == observeAll(combined.SourceList, 1, longestPathPrefix).prfx IN
    /\ root \in SharedDirectories(ObservedPaths)
    /\ \A s \in SharedDirectories(ObservedPaths) : Len(s) <= Len(root)
    /\ Assembled =>
         /\ project.Path = root
         /\ DOMAIN project.sourceUnits =
              {SubSeq(path, Len(root) + 1, Len(path)) : path \in DOMAIN combined.Sources}
         /\ \A path \in DOMAIN combined.Sources :
              project.sourceUnits[SubSeq(path, Len(root) + 1, Len(path))]
                = combined.Sources[path]

\* "a/x/b.sol" and "a/c.sol" have become "x/b.sol" and "c.sol"
C19_SharedDirectoryRemoved ==
  /\ Assembled
  /\ ObservedPaths = {"a/x/b.sol", "a/c.sol"}
  /\ project.Path = "a/"
  /\ DOMAIN project.sourceUnits = {"x/b.sol", "c.sol"}

\* the nodes of the source units handed to Project
SourceNodes ==
  UNION {{PreTraverse(combined.Sources[path])[i] :
            i \in 1..Len(PreTraverse(combined.Sources[path]))} :
         path \in DOMAIN combined.Sources}

Definitions == {n \in SourceNodes : n.node = "ContractDefinition"}

\* a contract names a base that is no ContractDefinition of the project
UnknownParent ==
  \E d \in Definitions : \E j \in 2..Len(d.LinearizedBaseContracts) :
    \A e \in Definitions : e.id # d.LinearizedBaseContracts[j]

\* a type name or a declaration refers to an id that stands for no type
UnknownType ==
  \/ \E n \in SourceNodes :
       /\ n.node = "UserDefinedTypeName"
       /\ \A e \in SourceNodes : e.node \in TypedNodes => e.id # n.ReferencedDeclaration
  \/ \E n \in SourceNodes :
       /\ n.node = "VariableDeclaration"
       /\ \E i \in 1..Len(n.children) : n.children[i].node \notin TypedNodes

Ended == pc \in {"serving", "stopped"}

ParentsAreBases ==
  Assembled =>
    \A id \in DOMAIN project.contracts :
      LET contract == project.contracts[id]
          bases == contract.Definition.LinearizedBaseContracts
      IN /\ Len(contract.Parents) = Len(bases) - 1
         /\ \A j \in 1..Len(contract.Parents) :
              /\ contract.Parents[j] = bases[j + 1]
              /\ contract.Parents[j] # id
              /\ contract.Parents[j] \in DOMAIN project.contracts

EntriesOf(contract, child) ==
  {sig \in DOMAIN contract.API : contract.API[sig].Definition = child}

\* C16: the API of a contract holds a getter for a top-level
\* VariableDeclaration only when the variable is public or external, one
\* Function for every FunctionDefinition that is no constructor, the fallback
\* with the empty name among them, and nothing for a constructor.
C16_API ==
  Assembled =>
    \A id \in DOMAIN project.contracts :
      LET contract == project.contracts[id]
          children == Children(contract.Definition)
      IN \A i \in 1..Len(children) :
           LET child == children[i] IN
           /\ child.node = "VariableDeclaration" =>
                (EntriesOf(contract, child) # {}
                   => child.Visibility \in {VisibilityPublic, VisibilityExternal})
           /\ child.node = "FunctionDefinition" /\ ~child.IsConstructor =>
                Cardinality(EntriesOf(contract, child)) = 1
           /\ child.node = "FunctionDefinition" /\ child.IsConstructor =>
                EntriesOf(contract, child) = {}

\* the canonical form of a type: the identifier of an Elementary, the
\* element's form and [N] or [] for an Array, (S1,...,Sk) for a Struct or a
\* Tuple, uint8 for an Enum, address for the addresses, the inner form for a
\* Named; withMapping says whether mapping(K => V) is a form as well
RECURSIVE Canonical(_, _)
RECURSIVE CanonicalList(_, _, _)
CanonicalList(ts, i, withMapping) ==
  IF i > Len(ts) THEN ""
  ELSE IF i = Len(ts) THEN Canonical(ts[i], withMapping)
  ELSE Canonical(ts[i], withMapping) \o "," \o CanonicalList(ts, i + 1, withMapping)

Canonical(t, withMapping) ==
  CASE t.k = "Elementary" -> IF t.sized THEN t.name \o ToString(t.n) ELSE t.name
    [] t.k = "Array" ->
         IF t.Length = DynamicArrayLength THEN Canonical(t.Type, withMapping) \o "[]"
         ELSE Canonical(t.Type, withMapping) \o "[" \o ToString(t.Length) \o "]"
    [] t.k = "Struct" -> "(" \o CanonicalList(t.Types, 1, withMapping) \o ")"
    [] t.k = "Tuple" -> "(" \o CanonicalList(t.ts, 1, withMapping) \o ")"
    [] t.k = "Enum" -> "uint8"
    [] t.k \in {"ContractAddress", "InterfaceAddress", "LibraryAddress"} -> "address"
    [] t.k = "Named" -> Canonical(t.Type, withMapping)
    [] t.k = "Mapping" /\ withMapping ->
         "mapping(" \o Canonical(t.Key, withMapping) \o " => "
           \o Canonical(t.Value, withMapping) \o ")"
    [] OTHER -> "?"

CanonicalSignature(f, withMapping) ==
  f.Name \o "(" \o CanonicalList(f.Inputs, 1, withMapping) \o ")"

NoSpaces(s) == \A i \in 1..Len(s) : Char(s, i) # " "

RECURSIVE HoldsMapping(_)
HoldsMapping(t) ==
  t.k = "Mapping" \/ \E i \in 1..Len(Members(t)) : HoldsMapping(Members(t)[i])

\* every function extracted from a child of the contract is in the API under sig(f)
KeyedBy(contract, sig(_)) ==
  /\ \A key \in DOMAIN contract.API : key = sig(contract.API[key])
  /\ \A i \in 1..Len(Children(contract.Definition)) :
       LET child == Children(contract.Definition)[i] IN
       child.node = "FunctionDefinition" /\ ~child.IsConstructor =>
         \E key \in DOMAIN contract.API : contract.API[key].Definition = child

RECURSIVE HoldsReference(_)
HoldsReference(t) ==
  t.k = "Reference" \/ \E i \in 1..Len(Members(t)) : HoldsReference(Members(t)[i])

\* the types a contract holds: the inputs and outputs of the functions of its
\* API, and the entries of its Types
TypesHeld(contract) ==
  UNION {{f.Inputs[i] : i \in 1..Len(f.Inputs)} \cup {f.Outputs[i] : i \in 1..Len(f.Outputs)} :
           f \in {contract.API[sig] : sig \in DOMAIN contract.API}}
    \cup {contract.Types[name] : name \in DOMAIN contract.Types}

\* C15: after project assembly no Reference is reachable in any Type held by
\* any Contract, inputs and outputs of the functions of its API and entries
\* of its Types, provided every referenced id is a key of the type-id map.
C15_NoReference ==
  Assembled /\ ~UnknownType =>
    \A id \in DOMAIN project.contracts :
      \A t \in TypesHeld(project.contracts[id]) : ~HoldsReference(t)

\* a project whose sources name user-defined types inside a mapping, an
\* array, an event and a parameter list
C15_ReferencesResolved ==
  /\ Assembled
  /\ ~UnknownType
  /\ \E n \in SourceNodes : n.node = "Mapping" /\ n.children[2].node = "UserDefinedTypeName"
  /\ \E n \in SourceNodes :
       n.node = "ArrayTypeName" /\ n.children[1].node = "UserDefinedTypeName"
  /\ \E id \in DOMAIN project.contracts :
       LET contract == project.contracts[id] IN
       /\ "set(uint8,(uint8,bytes))" \in DOMAIN contract.API
       /\ contract.API["tags(address)"].Outputs[1].k = "Named"
       /\ "Set" \in DOMAIN contract.Types
  /\ \E id \in DOMAIN project.contracts :
       LET contract == project.contracts[id] IN
       /\ "pairs(uint256)" \in DOMAIN contract.API
       /\ contract.API["pairs(uint256)"].Outputs[1].Type.k = "Struct"



\* the request being answered, and the function its signature is found to name
Answering(method) == pc = "answering" /\ req.method = method

Asked == functionBySignature(project, req.params.File, req.params.Contract,
                             req.params.Signature)

\* the first four bytes of the Keccak-256 digest of the signature of f
First4(f) == SubSeq(keccak(FunctionSignature(f)), 1, 4)

\* the call-data an entry of eth carries: the data of a transaction, or the
\* bytes the field "data" of a call spells in hexadecimal after "0x"
CarriesCallData(entry) == entry.method \in {"eth_call", "eth_sendRawTransaction"}

CallDataOf(entry) ==
  IF entry.method = "eth_sendRawTransaction" THEN entry.transaction.data
  ELSE DecodeString(SubSeq(entry.call.Data, 3, Len(entry.call.Data)))

\* C18: for every function f found by signature lookup and every argument
\* list that encodes, the call-data EncodeFunctionCall returns and the
\* call-data DispatchFunctionCall hands to the node, in a call or in a
\* transaction, is the first four bytes of keccak256(signature(f)) followed by
\* Encode(Tuple(f.Inputs), arguments), and the fingerprint GetFunction reports
\* for f spells the same four bytes; if the arguments do not encode, the
\* method fails, and no call-data is returned or handed to the node.
C18_CallData ==
  /\ Answering("EncodeFunctionCall") /\ Asked.st = "ok" =>
       LET encoded == Encode(Tuple(Asked.v.Inputs), req.params.Arguments) IN
       IF encoded.st = "ok"
       THEN res = Done(First4(Asked.v) \o encoded.code)
       ELSE res.st # "ok"
  /\ Answering("DispatchFunctionCall") /\ Asked.st = "ok" =>
       LET encoded == Encode(Tuple(Asked.v.Inputs), req.params.Arguments) IN
       IF encoded.st = "ok"
       THEN \A i \in 1..Len(eth) :
              CarriesCallData(eth[i]) =>
                /\ CallDataOf(eth[i]) = First4(Asked.v) \o encoded.code
                /\ eth[i].method = "eth_call" =>
                     /\ Has0xPrefix(eth[i].call.Data)
                     /\ ~DecodeStringFails(SubSeq(eth[i].call.Data, 3, Len(eth[i].call.Data)))
       ELSE /\ res.st # "ok"
            /\ \A i \in 1..Len(eth) : ~CarriesCallData(eth[i])
  /\ Answering("GetFunction") /\ Asked.st = "ok" =>
       /\ res.st = "ok"
       /\ ~DecodeStringFails(res.v.fingerprint)
       /\ DecodeString(res.v.fingerprint) = First4(Asked.v)

\* transfer(address,uint256), found in Token through Child, is sent in a
\* transaction: a9059cbb, then the two words of the arguments
C18_TransferSent ==
  /\ Answering("DispatchFunctionCall")
  /\ req.params.Contract = "Child"
  /\ req.params.Signature = "transfer(address,uint256)"
  /\ res.st = "ok"
  /\ \E i \in 1..Len(eth) :
       /\ eth[i].method = "eth_sendRawTransaction"
       /\ SubSeq(eth[i].transaction.data, 1, 4) = <<169, 5, 156, 187>>
       /\ Len(eth[i].transaction.data) = 68

(***************************************************************************)
(* Two's complement and the integer round trip                             *)
(***************************************************************************)

\* a magnitude of at most 32 bytes as a 32-byte big-endian word
Word256(mag) == Zeros(32 - Len(mag)) \o mag

\* C24: manualTwosComplement of the 32-byte big-endian buffer of a magnitude
\* is the 32-byte big-endian encoding of 2^256 minus it, so the word Encode
\* writes for a negative v is 2^256 + v, also when |v| is a multiple of 2^248.
C24_TwosComplement ==
  pc = "encoded" /\ typ \in IntegerTypes /\ IsIntArg(arg) /\ ArgInt(arg).neg /\ enc.st = "ok"
    => /\ manualTwosComplement(Word256(ArgInt(arg).mag))
            = Word256(Complement256(ArgInt(arg).mag))
       /\ enc.code = Word256(Complement256(ArgInt(arg).mag))

\* C28: for an integer type T and every v that Encode(T, v) accepts, Encode of
\* what Decode returned for the encoding succeeds and returns the same bytes
\* as Encode(T, v), also for a negative v of more than 32 bits and M < 256.
C28_IntegerReencodes ==
  pc = "decoded" /\ typ \in IntegerTypes /\ enc.st = "ok"
    => /\ dec.st = "ok"
       /\ Encode(typ, dec.val).st = "ok"
       /\ Encode(typ, dec.val).code = enc.code

(***************************************************************************)
(* The getters of top-level variables                                      *)
(***************************************************************************)

\* the type-id map after the resolve pass
resolvedTypes(found) == resolveAll(found, Walk(Refs(found), TRUE), 1)

ResolvedTypes ==
  resolvedTypes(loadSources(combined.Sources,
                            CHOOSE walk \in Orders(DOMAIN combined.Sources) : TRUE, 1,
                            observeAll(combined.SourceList, 1, longestPathPrefix),
                            NoTypes, [path \in {} |-> None]).v.typeMap)

\* the type T a variable is declared with
DeclaredT(variable) == Deref(ResolvedTypes, Children(variable)[1].id)

\* one parameter per layer descended through Mapping values and Array
\* elements, the outermost layer first: the key type, or uint256
RECURSIVE Layers(_)
Layers(t) ==
  IF t.k = "Mapping" THEN <<t.Key>> \o Layers(t.Value)
  ELSE IF t.k = "Array" THEN <<uint256>> \o Layers(t.Type)
  ELSE <<>>

\* the first type that is neither Mapping nor Array on that descent
RECURSIVE Concrete(_)
Concrete(t) ==
  IF t.k = "Mapping" THEN Concrete(t.Value)
  ELSE IF t.k = "Array" THEN Concrete(t.Type)
  ELSE t

\* every top-level variable of every contract has a getter with its name and
\* visibility, the concrete type as its single output, and inputs(T) as inputs
Getters(inputs(_)) ==
  \A id \in DOMAIN project.contracts :
    LET contract == project.contracts[id]
        children == Children(contract.Definition)
    IN \A i \in 1..Len(children) :
         children[i].node = "VariableDeclaration" =>
           \E sig \in EntriesOf(contract, children[i]) :
             /\ contract.API[sig].Name = children[i].Name
             /\ contract.API[sig].Visibility = children[i].Visibility
             /\ contract.API[sig].Outputs = <<Concrete(DeclaredT(children[i]))>>
             /\ contract.API[sig].Inputs = inputs(DeclaredT(children[i]))

\* C25: the getter of a top-level variable of type T has the name and the
\* visibility of the variable, the first type that is neither Mapping nor
\* Array on the descent through T as its single output, and one input per
\* layer descended, each prepended to the list as the descent proceeds.
C25_GetterPrepended ==
  Assembled => LET Prepended(t) == Reversed(Layers(t)) IN Getters(Prepended)

\* C25, with the inputs in the order of the descent: the getter has one input
\* per layer descended, the key type for a Mapping and uint256 for an Array,
\* each appended to the list, so the outermost layer comes first.
C25_GetterAppended ==
  Assembled => Getters(Layers)

\* the getters of mapping(address => uint8[]) and of a mapping of a mapping
C25_TwoLayers ==
  /\ Assembled
  /\ \E id \in DOMAIN project.contracts :
       /\ "book(address,uint256)" \in DOMAIN project.contracts[id].API
       /\ project.contracts[id].API["book(address,uint256)"].Outputs = <<uint8>>
       /\ "grants(uint8,address)" \in DOMAIN project.contracts[id].API

(***************************************************************************)
(* The prefix re-attached, and the compiled binaries                       *)
(***************************************************************************)

\* the path of sourceList whose source unit declares the contract
SourcePathOf(contract) ==
  CHOOSE path \in DOMAIN combined.Sources :
    \E i \in 1..Len(ContractDefinitions(combined.Sources[path])) :
      ContractDefinitions(combined.Sources[path])[i] = contract.Definition

\* the compiled binary of a contract, decoded, or the null binary
CompiledBinary(contract) ==
  LET key == SourcePathOf(contract) \o ":" \o contract.Name IN
  IF key \in DOMAIN combined.Contracts THEN DecodeString(combined.Contracts[key].Binary)
  ELSE <<>>

\* C26: PrependPrefix(RemovePrefix(p)) = p for every path p of sourceList, and
\* every contract Name of the source unit of p has the binary compiled under
\* "<p>:<Name>", the null binary when there is no such entry.
C26_PrefixReattached ==
  pc \in {"configured", "serving", "stopped"} =>
    LET lpp == observeAll(combined.SourceList, 1, longestPathPrefix) IN
    /\ \A i \in 1..Len(combined.SourceList) :
         /\ ~RemovePrefixPanics(lpp, combined.SourceList[i])
         /\ PrependPrefix(lpp, RemovePrefix(lpp, combined.SourceList[i]))
              = combined.SourceList[i]
    /\ Assembled =>
         \A id \in DOMAIN project.contracts :
           project.contracts[id].Binary = CompiledBinary(project.contracts[id])

(***************************************************************************)
(* The user-defined types of a contract                                    *)
(***************************************************************************)

\* the struct and enum definitions declared inside a contract
DeclaredTypes(contract) ==
  {Children(contract.Definition)[i] : i \in 1..Len(Children(contract.Definition))}
    \cap {n \in SourceNodes : n.node \in {"StructDefinition", "EnumDefinition"}}

\* the suffix after the last '.'
SimpleName(name) == SubSeq(name, LastIndex(name, ".") + 1, Len(name))

\* C27: for every contract C of an assembled project, C.Types holds exactly
\* the struct and enum types declared inside C, each under its simple name:
\* no Event and no type declared in another contract, a contract of the same
\* file whose name starts with the name of C included.
C27_OwnTypes ==
  Assembled =>
    \A id \in DOMAIN project.contracts :
      LET contract == project.contracts[id] IN
      /\ DOMAIN contract.Types = {SimpleName(d.CanonicalName) : d \in DeclaredTypes(contract)}
      /\ \A d \in DeclaredTypes(contract) :
           /\ contract.Types[SimpleName(d.CanonicalName)].k = "Named"
           /\ contract.Types[SimpleName(d.CanonicalName)].Name
                = contract.File \o ":" \o d.CanonicalName

(***************************************************************************)
(* Termination of the resolve pass                                         *)
(***************************************************************************)

\* every id a type of the map refers to is a key of the map
EveryRefIsKey(typeMap) == \A r \in DOMAIN typeMap : RefsIn(typeMap[r]) \subseteq DOMAIN typeMap

\* a type of the map reaches itself through References
ReachesItself(typeMap) ==
  \E r \in DOMAIN typeMap : r \in Reached(typeMap, RefsIn(typeMap[r]), {})

Acyclic == EveryRefIsKey(unresolved) /\ ~ReachesItself(unresolved)

PassReturned == pc = "resolved"

C29_TreeOverflows ==
  /\ pc = "fatal"
  /\ EveryRefIsKey(unresolved)
  /\ \E r \in DOMAIN unresolved :
       /\ unresolved[r].k = "Named"
       /\ SimpleName(unresolved[r].Name) = "Node"
       /\ unresolved[r].Type.Keys = <<"kids">>

Callers == {"c1", "c2"}
MaxWrites == 3
tokenExpiration == 15

Idle == [at |-> "idle"]
Call(op, st, args, out, tmp) == [op |-> op, st |-> st, args |-> args, out |-> out, tmp |-> tmp]

\* a ^ b on two bytes
RECURSIVE XorByte(_, _)
XorByte(a, b) ==
  IF a = 0 /\ b = 0 THEN 0
  ELSE ((a + b) % 2) + 2 * XorByte(a \div 2, b \div 2)

\* the second loop of xorKeyBytes: for ; i < l; i++ { bs[i] ^= mask[i] }
RECURSIVE xorRest(_, _, _)
xorRest(bs, mask, i) ==
  IF i < Len(bs)
  THEN xorRest(Stored([j \in 1..Len(bs) |-> IF j = i + 1 THEN XorByte(bs[j], mask[j]) ELSE bs[j]]),
               mask, i + 1)
  ELSE bs

\* the first loop of xorKeyBytes: eight bytes at a time while i < l-(l%8)
RECURSIVE xorBlocks(_, _, _)
xorBlocks(bs, mask, i) ==
  IF i < Len(bs) - (Len(bs) % 8)
  THEN xorBlocks(Stored([j \in 1..Len(bs) |->
                           IF j \in (i + 1)..(i + 8) THEN XorByte(bs[j], mask[j]) ELSE bs[j]]),
                 mask, i + 8)
  ELSE xorRest(bs, mask, i)

xorKeyBytes(bs, mask) ==
  IF Len(bs) # Len(mask) THEN Failed("key / mask length mismatch")
  ELSE Done(xorBlocks(bs, mask, 0))

\* sync.Map.Store in place of LoadOrStore: the value is replaced
StoreOver(m, key, value) ==
  [m |-> (key :> value) @@ m, loaded |-> FALSE]

\* sync.Map.LoadOrStore: the map afterwards, and whether the key was there
LoadOrStore(m, key, value) ==
  IF key \in DOMAIN m THEN [m |-> m, loaded |-> TRUE]
  ELSE [m |-> (key :> value) @@ m, loaded |-> FALSE]

\* sync.Map.Delete
Deleted(m, key) == [k \in DOMAIN m \ {key} |-> m[k]]

\* auth.RegisterAuthenticator: the registry afterwards and how the call ended
RegisterAuthenticator(m, name, implementation) ==
  LET r == LoadOrStore(m, name, implementation)
  IN [registered |-> r.m, st |-> IF r.loaded THEN "panicked" ELSE "returned"]

\* the [32]byte index of the n-th Write, and the bytes rand.Read gave it
Index(n) == [i \in 1..32 |-> n]
Mask(n, l) == [i \in 1..l |-> ((37 * n) + (11 * i)) % 256]
Randomness(n, l) == {Index(n) \o Mask(n, l)}

\* KeyBytes.Copy
Copy(bs) == [i \in 1..Len(bs) |-> bs[i]] \o <<>>

\* KeyStore.Write: the store afterwards, the index and mask returned, and
\* whether a timer was started
Write(s, bs, ttl, randomness) ==
  [store |-> (SubSeq(randomness, 1, 32) :>
                xorKeyBytes(Copy(bs), SubSeq(randomness, 33, Len(randomness))).v) @@ s,
   index |-> SubSeq(randomness, 1, 32),
   mask |-> SubSeq(randomness, 33, Len(randomness)),
   timer |-> ttl # 0]

\* what a call on the store returns, with the store afterwards
Kept(s, out) == [out |-> out, store |-> s]

\* KeyStore.Read without the Copy: the loaded slice is unmasked in place
ReadInPlace(s, index, mask) ==
  IF index \notin DOMAIN s THEN Kept(s, Failed("index not found"))
  ELSE IF xorKeyBytes(s[index], mask).st # "ok" THEN Kept(s, xorKeyBytes(s[index], mask))
  ELSE [out |-> xorKeyBytes(s[index], mask),
        store |-> [k \in DOMAIN s |-> IF k = index THEN xorKeyBytes(s[index], mask).v ELSE s[k]]]

\* KeyStore.Read
Read(s, index, mask) ==
  IF index \notin DOMAIN s THEN Kept(s, Failed("index not found"))
  ELSE Kept(s, xorKeyBytes(Copy(s[index]), mask))

\* the private keys of the key files, as crypto.FromECDSA gives them
AliceKey == [i \in 1..32 |-> i]
CarolKey == [i \in 1..32 |-> 255 - 3 * i]
PrivateKeys == {AliceKey, CarolKey}

\* auth.BytesToKey: crypto.ToECDSA accepts the 32 bytes of a valid scalar
BytesToKey(bs) ==
  IF bs \in PrivateKeys THEN Done([PrivateKey |-> bs])
  ELSE Failed("invalid private key")

\* the key files on disk: path -> passphrase and private key
KeyFiles ==
  ("/keys/alice.json" :> [Passphrase |-> "pw", PrivateKey |-> AliceKey])
  @@ ("/srv/keys/alice.json" :> [Passphrase |-> "pw", PrivateKey |-> CarolKey])

Folder(path) == [Folder |-> path]
Implementations == {Folder("/keys"), Folder("/srv/keys")}
AuthenticatorNames == {"fs", "ldap"}
NamesRegistered == {"fs"}
Credentials(filePath, passphrase) == [FilePath |-> filePath, Passphrase |-> passphrase]
CredentialsAsked ==
  {Credentials(<<"alice.json">>, "pw"), Credentials(<<"alice.json">>, "guess")}

\* Folder.Authenticate up to keystore.DecryptKey: the key bytes, or the error
decryptedKey(f, credentials) ==
  LET path == f.Folder \o "/" \o credentials.FilePath[1]
  IN IF path \notin DOMAIN KeyFiles THEN Failed("invalid credentials")
     ELSE IF KeyFiles[path].Passphrase # credentials.Passphrase THEN Failed("invalid credentials")
     ELSE Done(KeyFiles[path].PrivateKey)

\* the Token of the n-th Write; Expires is identified by n
Token(secret, n) == [Secret |-> secret, Expires |-> n]
NumberOf(index) == index[1]
TokenOf(n) == Token(written[n].index \o written[n].mask, n)
Given == {n \in 1..Len(written) : written[n].given}

\* the tokens callers present: those handed out, and two forged from the
\* first, one cut inside the index and one with the last mask byte missing
TokensAsked ==
  {TokenOf(n) : n \in Given}
  \cup (IF 1 \in Given
        THEN {Token(SubSeq(TokenOf(1).Secret, 1, 31), 1),
              Token(SubSeq(TokenOf(1).Secret, 1, Len(TokenOf(1).Secret) - 1), 1)}
        ELSE {})

\* parseToken, for a token that is JSON with an RFC3339 time
parseToken(token, passed) ==
  IF token.Expires \in passed THEN Failed("token expired") ELSE Done(token)

\* Folder.ExchangeToken
ExchangeTokenOf(s, passed, token) ==
  LET tok == parseToken(token, passed)
  IN IF tok.st # "ok" THEN Kept(s, tok)
     ELSE IF Len(token.Secret) < 32 THEN Kept(s, Failed("invalid token"))
     ELSE LET keyBytes == Read(s, SubSeq(token.Secret, 1, 32),
                               SubSeq(token.Secret, 33, Len(token.Secret)))
          IN IF keyBytes.out.st # "ok" THEN Kept(keyBytes.store, Failed("invalid token"))
             ELSE Kept(keyBytes.store, BytesToKey(keyBytes.out.v))

\* RenewToken up to authenticated.Read: the key bytes of the old token
oldKeyBytes(s, passed, token) ==
  LET tok == parseToken(token, passed)
  IN IF tok.st # "ok" THEN Kept(s, tok)
     ELSE IF Len(token.Secret) < 32 THEN Kept(s, Failed("invalid token"))
     ELSE LET keyBytes == Read(s, SubSeq(token.Secret, 1, 32),
                               SubSeq(token.Secret, 33, Len(token.Secret)))
          IN IF keyBytes.out.st # "ok" THEN Kept(keyBytes.store, Failed("invalid token"))
             ELSE keyBytes

\* RenewToken's last store operation, had it been left out
oldKept(s, oldIndex) == s

\* RenewToken's last store operation: authenticated.Delete(oldIndex)
oldDeleted(s, oldIndex) == Deleted(s, oldIndex)

\* the record of a Write
Written(w, bs, ttl, old, given) ==
  [index |-> w.index, mask |-> w.mask, bs |-> bs, ttl |-> ttl,
   from |-> old, given |-> given, ended |-> "no"]

\* the record of the entries after Delete(index) or the timer of index
EndedAs(log, index, how) ==
  [n \in 1..Len(log) |->
     IF log[n].index = index /\ log[n].ended = "no"
     THEN [log[n] EXCEPT !.ended = how] ELSE log[n]] \o <<>>

\* the Writes that calls in progress will still make
Pending == Cardinality({c \in Callers : goroutines[c].at = "write"})

AuthInit ==
  /\ pc = "serving"
  /\ registered = <<>>
  /\ store = <<>>
  /\ timers = {}
  /\ expired = {}
  /\ written = <<>>
  /\ goroutines = [c \in Callers |-> Idle]
  /\ ret = None
  /\ typ = None
  /\ arg = None
  /\ enc = None
  /\ buf = None
  /\ dec = None
  /\ combined = None
  /\ project = None
  /\ req = None
  /\ res = None
  /\ eth = <<>>
  /\ unresolved = None
  /\ resolving = None

\* auth.RegisterAuthenticator(name, implementation)
RegisterStep ==
  /\ \E name \in NamesRegistered, implementation \in Implementations :
       LET r == RegisterAuthenticator(registered, name, implementation)
       IN /\ registered' = r.registered
          /\ ret' = Call("RegisterAuthenticator", r.st,
                         [name |-> name, implementation |-> implementation], None, None)
  /\ UNCHANGED <<pc, store, timers, expired, written, goroutines>>
  /\ UNCHANGED abiVars
  /\ UNCHANGED linkVars
  /\ UNCHANGED resolveVars

\* auth.Authenticate(name, credentials), and Folder.Authenticate behind it
AuthenticateStep ==
  /\ \E name \in AuthenticatorNames, credentials \in CredentialsAsked :
       LET args == [name |-> name, credentials |-> credentials]
       IN IF name \notin DOMAIN registered
          THEN /\ ret' = Call("Authenticate", "returned", args,
                              Failed("no authenticator registered with name: " \o name), None)
               /\ UNCHANGED <<store, timers, written>>
          ELSE LET authenticator == registered[name]
                   keyBytes == decryptedKey(authenticator, credentials)
               IN IF keyBytes.st # "ok"
                  THEN /\ ret' = Call("Authenticate", "returned", args, keyBytes,
                                      [authenticator |-> authenticator])
                       /\ UNCHANGED <<store, timers, written>>
                  ELSE /\ Len(written) + Pending < MaxWrites
                       /\ \E randomness \in Randomness(Len(written) + 1, Len(keyBytes.v)) :
                            LET w == Write(store, keyBytes.v, tokenExpiration, randomness)
                            IN /\ store' = w.store
                               /\ timers' = timers \cup {w.index}
                               /\ written' = Append(written,
                                    Written(w, keyBytes.v, tokenExpiration, 0, TRUE))
                               /\ ret' = Call("Authenticate", "returned", args,
                                              Done(Token(w.index \o w.mask, Len(written) + 1)),
                                              [authenticator |-> authenticator])
  /\ UNCHANGED <<pc, registered, expired, goroutines>>
  /\ UNCHANGED abiVars
  /\ UNCHANGED linkVars
  /\ UNCHANGED resolveVars

\* auth.ExchangeToken(name, token), and Folder.ExchangeToken behind it
ExchangeTokenStep ==
  /\ \E name \in AuthenticatorNames, token \in TokensAsked :
       LET args == [name |-> name, token |-> token]
       IN IF name \notin DOMAIN registered
          THEN /\ ret' = Call("ExchangeToken", "returned", args,
                              Failed("no authenticator registered with name: " \o name), None)
               /\ UNCHANGED store
          ELSE /\ ret' = Call("ExchangeToken", "returned", args,
                              ExchangeTokenOf(store, expired, token).out,
                              [authenticator |-> registered[name]])
               /\ store' = ExchangeTokenOf(store, expired, token).store
  /\ UNCHANGED <<pc, registered, timers, expired, written, goroutines>>
  /\ UNCHANGED abiVars
  /\ UNCHANGED linkVars
  /\ UNCHANGED resolveVars

\* Folder.RenewToken(oldToken) up to authenticated.Read(oldIndex, ...)
RenewRead(c) ==
  /\ goroutines[c] = Idle
  /\ \E token \in TokensAsked :
       LET keyBytes == oldKeyBytes(store, expired, token)
       IN /\ store' = keyBytes.store
          /\ IF keyBytes.out.st # "ok"
             THEN /\ ret' = Call("RenewToken", "returned", token, keyBytes.out, None)
                  /\ UNCHANGED goroutines
             ELSE /\ Len(written) + Pending < MaxWrites
                  /\ goroutines' = [goroutines EXCEPT ![c] =
                       [at |-> "write", oldToken |-> token,
                        oldIndex |-> SubSeq(token.Secret, 1, 32),
                        keyBytes |-> keyBytes.out.v, newIndex |-> None]]
                  /\ UNCHANGED ret
  /\ UNCHANGED <<pc, registered, timers, expired, written>>
  /\ UNCHANGED abiVars
  /\ UNCHANGED linkVars
  /\ UNCHANGED resolveVars

\* RenewToken: authenticated.Write(keyBytes, tokenExpiration); keyBytes.Destroy()
RenewWrite(c) ==
  /\ goroutines[c].at = "write"
  /\ \E randomness \in Randomness(Len(written) + 1, Len(goroutines[c].keyBytes)) :
       LET w == Write(store, goroutines[c].keyBytes, tokenExpiration, randomness)
       IN /\ store' = w.store
          /\ timers' = timers \cup {w.index}
          /\ written' = Append(written,
               Written(w, goroutines[c].keyBytes, tokenExpiration,
                       NumberOf(goroutines[c].oldIndex), FALSE))
          /\ goroutines' = [goroutines EXCEPT ![c] =
               [at |-> "marshal", oldToken |-> goroutines[c].oldToken,
                oldIndex |-> goroutines[c].oldIndex,
                keyBytes |-> <<>>, newIndex |-> w.index]]
  /\ UNCHANGED <<pc, registered, expired, ret>>
  /\ UNCHANGED abiVars
  /\ UNCHANGED linkVars
  /\ UNCHANGED resolveVars

\* RenewToken: json.Marshal failed, authenticated.Delete(newIndex)
RenewMarshalFails(c) ==
  /\ goroutines[c].at = "marshal"
  /\ store' = Deleted(store, goroutines[c].newIndex)
  /\ written' = EndedAs(written, goroutines[c].newIndex, "deleted")
  /\ ret' = Call("RenewToken", "returned", goroutines[c].oldToken,
                 Failed("internal error"), goroutines[c])
  /\ goroutines' = [goroutines EXCEPT ![c] = Idle]
  /\ UNCHANGED <<pc, registered, timers, expired>>
  /\ UNCHANGED abiVars
  /\ UNCHANGED linkVars
  /\ UNCHANGED resolveVars

\* RenewToken: the token marshalled, authenticated.Delete(oldIndex), return
RenewDelete(c) ==
  /\ goroutines[c].at = "marshal"
  /\ store' = oldDeleted(store, goroutines[c].oldIndex)
  /\ written' = [EndedAs(written, goroutines[c].oldIndex, "deleted")
                   EXCEPT ![NumberOf(goroutines[c].newIndex)].given = TRUE]
  /\ ret' = Call("RenewToken", "returned", goroutines[c].oldToken,
                 Done(Token(goroutines[c].newIndex
                              \o written[NumberOf(goroutines[c].newIndex)].mask,
                            NumberOf(goroutines[c].newIndex))),
                 goroutines[c])
  /\ goroutines' = [goroutines EXCEPT ![c] = Idle]
  /\ UNCHANGED <<pc, registered, timers, expired>>
  /\ UNCHANGED abiVars
  /\ UNCHANGED linkVars
  /\ UNCHANGED resolveVars

\* time.AfterFunc(ttl, func() { s.store.Delete(index) }) fires
TimerFires ==
  /\ \E index \in timers :
       /\ store' = Deleted(store, index)
       /\ timers' = timers \ {index}
       /\ written' = EndedAs(written, index, "timed out")
  /\ UNCHANGED <<pc, registered, expired, goroutines, ret>>
  /\ UNCHANGED abiVars
  /\ UNCHANGED linkVars
  /\ UNCHANGED resolveVars

\* the clock passes the Expires of a token
TokenExpires ==
  /\ \E n \in Given \ expired : expired' = expired \cup {n}
  /\ UNCHANGED <<pc, registered, store, timers, written, goroutines, ret>>
  /\ UNCHANGED abiVars
  /\ UNCHANGED linkVars
  /\ UNCHANGED resolveVars

AuthNext ==
  \/ RegisterStep
  \/ AuthenticateStep
  \/ ExchangeTokenStep
  \/ \E c \in Callers : RenewRead(c)
  \/ \E c \in Callers : RenewWrite(c)
  \/ \E c \in Callers : RenewMarshalFails(c)
  \/ \E c \in Callers : RenewDelete(c)
  \/ TimerFires
  \/ TokenExpires

AuthSpec == AuthInit /\ [][AuthNext]_vars

(***************************************************************************)
(* The KeyStore on its own: Write, Read and Delete as a client of package  *)
(* auth calls them, and the timers of the entries written with a ttl.      *)
(***************************************************************************)
\* the keys written: a private key, and a slice of no multiple of 8 bytes
KeyBytesAsked == {AliceKey, [i \in 1..11 |-> 200 + i]}
TtlsAsked == {0, tokenExpiration}

\* the indices asked for: those returned, and one never returned
IndicesAsked == {written[n].index : n \in 1..Len(written)} \cup {Index(0)}

\* the masks asked for: those returned, each also cut by a byte, and none
MasksAsked ==
  {written[n].mask : n \in 1..Len(written)}
  \cup {SubSeq(written[n].mask, 1, Len(written[n].mask) - 1) : n \in 1..Len(written)}
  \cup {<<>>}

\* KeyStore.Write(bs, ttl)
WriteStep ==
  /\ Len(written) < MaxWrites
  /\ \E bs \in KeyBytesAsked, ttl \in TtlsAsked :
       \E randomness \in Randomness(Len(written) + 1, Len(bs)) :
         LET w == Write(store, bs, ttl, randomness)
         IN /\ store' = w.store
            /\ timers' = IF w.timer THEN timers \cup {w.index} ELSE timers
            /\ written' = Append(written, Written(w, bs, ttl, 0, FALSE))
            /\ ret' = Call("Write", "returned", [bs |-> bs, ttl |-> ttl],
                           [index |-> w.index, mask |-> w.mask], None)
  /\ UNCHANGED <<pc, registered, expired, goroutines>>
  /\ UNCHANGED abiVars
  /\ UNCHANGED linkVars
  /\ UNCHANGED resolveVars

\* KeyStore.Read(index, mask)
ReadStep ==
  /\ \E index \in IndicesAsked, mask \in MasksAsked :
       /\ store' = Read(store, index, mask).store
       /\ ret' = Call("Read", "returned", [index |-> index, mask |-> mask],
                      Read(store, index, mask).out, None)
  /\ UNCHANGED <<pc, registered, timers, expired, written, goroutines>>
  /\ UNCHANGED abiVars
  /\ UNCHANGED linkVars
  /\ UNCHANGED resolveVars

\* KeyStore.Delete(index)
DeleteStep ==
  /\ \E index \in IndicesAsked :
       /\ store' = Deleted(store, index)
       /\ written' = EndedAs(written, index, "deleted")
       /\ ret' = Call("Delete", "returned", [index |-> index], None, None)
  /\ UNCHANGED <<pc, registered, timers, expired, goroutines>>
  /\ UNCHANGED abiVars
  /\ UNCHANGED linkVars
  /\ UNCHANGED resolveVars

KeyStoreNext ==
  \/ WriteStep
  \/ ReadStep
  \/ DeleteStep
  \/ TimerFires

KeyStoreSpec == AuthInit /\ [][KeyStoreNext]_vars

(***************************************************************************)
(* The registry of authenticators                                          *)
(***************************************************************************)
\* the call that returned last was op, under a name
Called(ops) == ret # None /\ ret.op \in ops

\* C21: auth.Authenticate and auth.ExchangeToken panic when no Authenticator
\* is registered under the given name.  (They return the error "no
\* authenticator registered with name: ..." instead.)
C21_UnregisteredPanics ==
  (Called({"Authenticate", "ExchangeToken"}) /\ ret.args.name \notin DOMAIN registered)
    => ret.st = "panicked"

\* C22: RegisterAuthenticator panics when the name is registered already
\* and leaves the first registration in place; it returns, having stored
\* the implementation, exactly when the name was not registered, so that
\* of the calls for one name, in any order, one succeeds; no step changes
\* or removes a registration, and an Authenticate or ExchangeToken call
\* for a registered name uses the implementation registered.
C22_FirstRegistrationStays ==
  /\ [][(ret' # ret /\ ret'.op = "RegisterAuthenticator")
          => IF ret'.args.name \in DOMAIN registered
             THEN ret'.st = "panicked" /\ registered' = registered
             ELSE /\ ret'.st = "returned"
                  /\ DOMAIN registered' = DOMAIN registered \cup {ret'.args.name}
                  /\ registered'[ret'.args.name] = ret'.args.implementation
                  /\ \A name \in DOMAIN registered : registered'[name] = registered[name]]_vars
  /\ [][\A name \in DOMAIN registered :
          name \in DOMAIN registered' /\ registered'[name] = registered[name]]_vars
  /\ [][(ret' # ret /\ ret'.op \in {"Authenticate", "ExchangeToken"}
           /\ ret'.args.name \in DOMAIN registered)
          => ret'.tmp = [authenticator |-> registered[ret'.args.name]]]_vars
  /\ [](Called({"Authenticate", "ExchangeToken"}) /\ ret.tmp # None
          => ret.tmp.authenticator = registered[ret.args.name])

\* C22, the case: a second registration under the name panicked, and the
\* implementation of the first is the one registered
C22_SecondPanicked ==
  /\ Called({"RegisterAuthenticator"})
  /\ ret.st = "panicked"
  /\ registered[ret.args.name] # ret.args.implementation

(***************************************************************************)
(* The life of a KeyStore entry                                            *)
(***************************************************************************)
\* C23: while neither Delete(index) was called nor the timer of the entry
\* fired, Read(index, mask) returns bs and leaves the store as it is, and
\* Read with a mask of another length returns an error; afterwards Read of
\* the index returns "index not found" whatever the mask; an entry written
\* with ttl == 0 has no timer and ends by Delete only.
C23_EntryLifecycle ==
  /\ [](\A n \in 1..Len(written) :
          /\ written[n].ended = "no"
               => /\ Read(store, written[n].index, written[n].mask) = Kept(store, Done(written[n].bs))
                  /\ \A mask \in MasksAsked :
                       Len(mask) # Len(written[n].bs)
                         => Read(store, written[n].index, mask)
                              = Kept(store, Failed("key / mask length mismatch"))
          /\ written[n].ended # "no"
               => \A mask \in MasksAsked :
                    Read(store, written[n].index, mask) = Kept(store, Failed("index not found"))
          /\ written[n].ttl = 0
               => written[n].index \notin timers /\ written[n].ended # "timed out")
  /\ [][(ret' # ret /\ ret'.op = "Read") => store' = store]_vars
  /\ [][\A n \in 1..Len(written) :
          (written[n].ended = "no" /\ written'[n].ended # "no")
            => \/ ret' # ret /\ ret'.op = "Delete" /\ ret'.args.index = written[n].index
               \/ written[n].index \in timers /\ written[n].index \notin timers']_vars

\* C23, the case: a Read gave back the eleven bytes that were written with
\* ttl == 0, and another entry has timed out
C23_ReadBack ==
  /\ Called({"Read"})
  /\ \E n \in 1..Len(written) :
       /\ written[n].ttl = 0
       /\ Len(written[n].bs) = 11
       /\ ret.args = [index |-> written[n].index, mask |-> written[n].mask]
       /\ ret.out = Done(written[n].bs)
  /\ \E n \in 1..Len(written) : written[n].ended = "timed out"

(***************************************************************************)
(* Token renewal                                                           *)
(***************************************************************************)
\* the tokens RenewToken returned: the entry of each and the entry renewed
Renewals == {n \in Given : written[n].from # 0}

\* the key is read through the index and mask of the n-th Write
Reachable(n) ==
  Read(store, written[n].index, written[n].mask).out = Done(written[n].bs)

\* a goroutine in RenewToken reaches the key through the old or the new token
ReachableIn(c) ==
  \/ Reachable(NumberOf(goroutines[c].oldIndex))
  \/ goroutines[c].at = "marshal" /\ Reachable(NumberOf(goroutines[c].newIndex))

\* a RenewToken that failed left no entry and took none away
FailedRenewalLeavesStore ==
  (ret' # ret /\ ret'.op = "RenewToken" /\ ret'.out.st # "ok")
    => /\ DOMAIN store' = DOMAIN store \ (IF ret'.tmp = None THEN {} ELSE {ret'.tmp.newIndex})
       /\ \A index \in DOMAIN store' : store'[index] = store[index]
       /\ ExchangeTokenOf(store', expired', ret'.args).out
            = ExchangeTokenOf(store, expired, ret'.args).out

====
